---- MODULE Spec2Model ----
(***************************************************************************)
(* Verification model of the networking-howto repository.                  *)
(*                                                                         *)
(* Part 1: the readiness-driven file distribution servers                  *)
(*   05_stream_mutliplexing/server/server-epoll.c  (epoll event loop)      *)
(*   05_stream_mutliplexing/server/server-poll.c   (poll event loop)       *)
(*   server-common-multiplexing.h                  (protocol steps)        *)
(* Part 2: the wire round trip between the server's protocol steps and     *)
(*   05_tcp_multiplexing/client/client.c                                   *)
(* Part 3: the sequential and the thread-per-connection servers            *)
(* Part 4: the synchronisation and asynchronous I/O programs               *)
(*   02_nonblocking_sync/futex.c, 01_pthreads_sync/erm_futex.c             *)
(*   02_nonblocking_sync/ticket-lock.c                                     *)
(*   03_circular_buffer/circular-buffer.c                                  *)
(*   03_readers_writers/seqlock.c                                          *)
(*   04_async_io/io-uring-cp.c, linux-aio-cp, posix-aio-cp                 *)
(***************************************************************************)
EXTENDS Integers, Naturals, Sequences, FiniteSets, TLC

(***************************************************************************)
(* Bounds of the model.                                                    *)
(***************************************************************************)
\* <num-clients> arguments explored.
MaxConnsArgs == {1, 2}
\* Largest number of write() calls recorded on one connection's wire while
\* the connection is still sending the file size (caps retried short writes).
MaxSizeWrites == 2

(***************************************************************************)
(* Program constants.                                                      *)
(***************************************************************************)
TRANSFER_BLOCK_SIZE == 1024
\* sizeof(uint64_t): the length of the file-size field.
SIZEOF_FILE_SIZE == 8
\* size_t is unsigned: arithmetic wraps at SIZE_MAX (kept inside TLC's
\* integer range).
SIZE_MAX == 2147483646

\* Source file lengths explored: empty, below one block, exactly one block,
\* several blocks plus a partial remainder.
FileSizes == {0, 500, 1024, 2500}
\* Source file lengths served by the event loops of the model.
ServedFileSizes == {0, 2500}

\* TRANSFER_STATE
CONNECTION_EMPTY == "CONNECTION_EMPTY"
SEND_FILE_SIZE == "SEND_FILE_SIZE"
SEND_DATA_BLOCK == "SEND_DATA_BLOCK"
TRANSFER_FINISHED == "TRANSFER_FINISHED"

\* errno values that the program can observe.
ENONE == "0"
EAGAIN == "EAGAIN"
ECONNRESET == "ECONNRESET"
ECONNABORTED == "ECONNABORTED"
EIO == "EIO"
EBADF == "EBADF"

SizeInc(x) == IF x = SIZE_MAX THEN 0 ELSE x + 1
SizeDec(x) == IF x = 0 THEN SIZE_MAX ELSE x - 1

Min(a, b) == IF a < b THEN a ELSE b

VARIABLES
    \* --- configuration of one run of a multiplexing server
    variant,            \* "epoll" or "poll": which main() is running
    max_conns,          \* <num-clients>
    src_file_size,      \* server.src_file_size
    \* --- program state of main()
    pc,                 \* position of main(): top, wait, events, poll_listen,
                        \* poll_conns, exit, done, fatal
    conns,              \* FILESHARE_CONNECTION conns[max_conns]
    num_active_clients,
    num_connected_clients,
    accept_new_connections,
    accept_new_connections_prev,
    events,             \* epoll: events[0..numevents-1] of the current batch
    loop_i,             \* event_i (epoll) / conn_i (poll) of the dispatch loop
    pollfds,            \* poll: struct pollfd pollfds[max_conns + 1]
    received_sigint,    \* static _Atomic bool received_sigint
    errno,
    \* --- operating system state seen by the process
    open_fds,           \* descriptors open in the process
    epoll_set,          \* interest list of epollfd: set of [fd, tag]
    nonblock_fds,       \* open sockets whose O_NONBLOCK file status flag is set
    wire,               \* per slot: what each write() put into the socket
    stdout_finished,    \* number of "Transfer finished" lines printed
    exit_status,        \* "running", "EXIT_SUCCESS", "EXIT_FAILURE"
    \* --- history variables (observations only, never read by the program)
    io_error,           \* slots that saw a hangup, a failed read, a failed
                        \* write other than would-block, or a short write
    last_step,          \* the dispatch step just taken: branch, slot, the
                        \* slot's record before it and the system call results
    seen_offsets,       \* per slot: offsets at entry of server_send_file_block
    sig_scene,          \* what the table looked like when SIGINT was raised
    batch,              \* what the last wait call returned, in its order:
                        \* sequence of [tag, events]
    handled,            \* the dispatch steps taken for that batch so far:
                        \* sequence of [tag, op]
    calls,              \* the accept(), epoll_ctl() and close() calls made
                        \* for client sockets so far: [call, fd, ok]
    \* --- one server connection and one client, byte by byte
    rt_pc,              \* "off", or the client's position in its main()
    rt_little_endian,   \* byte order of the host
    rt_file,            \* content of the source file
    rt_conn,            \* the server's FILESHARE_CONNECTION
    rt_stream,          \* bytes written by the server and not yet received
    rt_closed,          \* the server has closed its socket
    rt_client,          \* the client's dst_file_size and dst_file_offset
    rt_dst,             \* content of the destination file
    rt_attempt,         \* number of connections the client has made
    rt_received,        \* data bytes received on the current connection
    rt_recv_errors,     \* failed recv() calls on the current connection
    \* --- the two servers side by side, driven by the same inputs
    pair_pc,            \* "off" or "on"
    pair_epoll,         \* the epoll server at its wait call, or after exit
    pair_poll,          \* the poll server at its wait call, or after exit
    pair_sigint,        \* the shutdown flag of both
    \* --- the sequential server, one client after the other
    seq_pc,             \* "off", or the position in its main()
    seq_num_clients,    \* <num-clients>
    seq_file_size,      \* server.src_file_size
    seq_client_i,       \* the loop counter of main()
    seq_conn,           \* the one FILESHARE_CONNECTION of main()
    seq_open_fds,       \* descriptors open in the process
    seq_sigint,         \* the shutdown flag
    seq_calls,          \* accept, send and close calls so far:
                        \* [call, client_i, ok]
    \* --- the thread-per-connection server
    thr_pc,             \* "off", or the position of the main thread
    thr_num_clients,    \* <num-clients>
    thr_file_size,      \* server.src_file_size
    thr_client_i,       \* the counter of the accepting loop
    thr_join_i,         \* the counter of the joining loop
    thr_args,           \* THREAD_ARGS array: [clent_active, conn]
    thr_threads,        \* per created thread: [pc, arg], arg the index of
                        \* the THREAD_ARGS it was given
    thr_open_fds,       \* descriptors open in the process
    thr_sigint,         \* the shutdown flag
    thr_access,         \* accesses to connection records after their
                        \* thread was created: [by, record]
    thr_late_io,        \* a worker has used the source file or its socket
                        \* after the source file was closed
    \* --- the futex mutex programs
    fx_variant,         \* "off", "futex" (also part_006) or "erm_futex"
    fx_num_threads,     \* NUM_THREADS
    fx_num_iterations,  \* NUM_ITERATIONS
    fx_mutex,           \* the mutex word
    fx_var,             \* var, the variable the critical section protects
    fx_threads,         \* per thread: [pc, i, status, seen]
    fx_printed,         \* the "invalid" message has been printed
    \* --- the ticket lock program
    tk_num_threads,     \* NUM_THREADS, 0 when switched off
    tk_num_iterations,  \* NUM_ITERATIONS
    tk_next_ticket,     \* TicketLock.next_ticket, a uint16_t
    tk_now_serving,     \* TicketLock.now_serving, a uint16_t
    tk_var,             \* var, the variable the critical section protects
    tk_threads,         \* per thread: [pc, i, ticket]
    tk_drawn,           \* the threads in the order of their fetch-add on next_ticket
    tk_entered,         \* the threads in the order in which TicketLock_acquire returned
    \* --- the ring buffer program
    rb_variant,         \* "off", "simple" or "cached" (ENABLE_SIMPLE 1 or 0)
    rb_num_iterations,  \* NUM_ITERATIONS
    rb_queue,           \* QUEUE: [data, size, cached_head, cached_tail, head, tail]
    rb_producer,        \* thread_producer: [pc, snd_i, head, tail]
    rb_consumer,        \* thread_consumer: [pc, rcv_i, snd_i, head, tail]
    rb_enqueued,        \* the values enqueued with success, in order
    rb_dequeued,        \* the values dequeued with success, in order
    rb_overwritten,     \* an element not yet dequeued has been overwritten
    rb_exit,            \* "running" or "failure"
    \* --- the seqlock program
    sq_config,          \* the parameters of the test bench, <<>> when switched off
    sq_seqlock,         \* seqlock, the sequence number
    sq_low,             \* low, the low half of the counter
    sq_high,            \* high, the high half of the counter
    sq_writers,         \* per writer: [pc, i, seq0, current]
    sq_readers,         \* per reader: [pc, seq0, seq1, low, high, copy]
    sq_history,         \* the values of the counter after each complete update
    \* --- io-uring-cp
    ur_pc,              \* the position of main(), "off" when switched off
    ur_queue_size,      \* QUEUE_SIZE
    ur_cell_i,          \* cell_i of the first for loop of main()
    ur_status,          \* CopyStatus: [src_off, src_size, num_block_in_progress, block_statuses]
    ur_sq,              \* the requests prepared and not yet submitted
    ur_kernel,          \* the requests submitted and not yet completed
    ur_cq,              \* the completion queue
    ur_done,            \* [assigned, read, written]: the ranges in the order of these events
    \* --- linux-aio-cp and posix-aio-cp
    aio_variant,        \* "off", "linux-aio-cp" or "posix-aio-cp"
    aio_pc,             \* the position of main()
    aio_queue_size,     \* QUEUE_SIZE
    aio_file_size,      \* the length of the source file
    aio_dst_size,       \* the length of the destination file
    aio_src_size,       \* src_size of main()
    aio_src_off,        \* src_off of main()
    aio_num_io_reqs,    \* num_io_reqs of main()
    aio_i,              \* aio_i of the for loops of main()
    aio_cbs,            \* per control block: [op, offset, nbytes, state, res]
    aio_events          \* linux-aio-cp: the control blocks returned by io_getevents

srv_vars == <<variant, max_conns, src_file_size, pc, conns, num_active_clients,
              num_connected_clients, accept_new_connections,
              accept_new_connections_prev, events, loop_i, pollfds,
              received_sigint, errno, open_fds, epoll_set, nonblock_fds, wire,
              stdout_finished, exit_status, io_error, last_step, seen_offsets,
              sig_scene, batch, handled, calls>>

rt_vars == <<rt_pc, rt_little_endian, rt_file, rt_conn, rt_stream, rt_closed,
             rt_client, rt_dst, rt_attempt, rt_received, rt_recv_errors>>

\* The variables outside each part of the model.
pair_vars == <<pair_pc, pair_epoll, pair_poll, pair_sigint>>

seq_vars == <<seq_pc, seq_num_clients, seq_file_size, seq_client_i, seq_conn,
              seq_open_fds, seq_sigint, seq_calls>>

thr_vars == <<thr_pc, thr_num_clients, thr_file_size, thr_client_i, thr_join_i,
              thr_args, thr_threads, thr_open_fds, thr_sigint, thr_access,
              thr_late_io>>

net_vars == <<srv_vars, rt_vars, pair_vars, seq_vars, thr_vars>>

fx_vars == <<fx_variant, fx_num_threads, fx_num_iterations, fx_mutex, fx_var,
             fx_threads, fx_printed>>

tk_vars == <<tk_num_threads, tk_num_iterations, tk_next_ticket,
             tk_now_serving, tk_var, tk_threads, tk_drawn, tk_entered>>

rb_vars == <<rb_variant, rb_num_iterations, rb_queue, rb_producer,
             rb_consumer, rb_enqueued, rb_dequeued, rb_overwritten, rb_exit>>

sq_vars == <<sq_config, sq_seqlock, sq_low, sq_high, sq_writers, sq_readers,
             sq_history>>

ur_vars == <<ur_pc, ur_queue_size, ur_cell_i, ur_status, ur_sq, ur_kernel,
             ur_cq, ur_done>>

aio_vars == <<aio_variant, aio_pc, aio_queue_size, aio_file_size,
              aio_dst_size, aio_src_size, aio_src_off, aio_num_io_reqs,
              aio_i, aio_cbs, aio_events>>

lab_vars == <<fx_vars, tk_vars, rb_vars, sq_vars, ur_vars, aio_vars>>

not_srv_vars == <<rt_vars, pair_vars, seq_vars, thr_vars, lab_vars>>
not_rt_vars == <<srv_vars, pair_vars, seq_vars, thr_vars, lab_vars>>
not_seq_vars == <<srv_vars, rt_vars, pair_vars, thr_vars, lab_vars>>
not_thr_vars == <<srv_vars, rt_vars, pair_vars, seq_vars, lab_vars>>

not_fx_vars == <<net_vars, tk_vars, rb_vars, sq_vars, ur_vars, aio_vars>>

not_tk_vars == <<net_vars, fx_vars, rb_vars, sq_vars, ur_vars, aio_vars>>

not_rb_vars == <<net_vars, fx_vars, tk_vars, sq_vars, ur_vars, aio_vars>>

not_sq_vars == <<net_vars, fx_vars, tk_vars, rb_vars, ur_vars, aio_vars>>

not_ur_vars == <<net_vars, fx_vars, tk_vars, rb_vars, sq_vars, aio_vars>>

not_aio_vars == <<net_vars, fx_vars, tk_vars, rb_vars, sq_vars, ur_vars>>

vars == <<srv_vars, rt_vars, pair_vars, seq_vars, thr_vars, lab_vars>>

Slots == 0 .. (max_conns - 1)

\* Descriptors 0,1,2 are the standard streams; main() then opens, in order,
\* the epoll descriptor (epoll only), the source file and the listening socket.
EPOLL_FD == 3
SrcFileFd(v) == IF v = "epoll" THEN 4 ELSE 3
ListenSockFd(v) == IF v = "epoll" THEN 5 ELSE 4

\* accept() returns the lowest descriptor number that is not open.
LowestFreeFd(fds) ==
    CHOOSE f \in 0 .. (Cardinality(fds) + 1) :
        f \notin fds /\ \A g \in 0 .. (f - 1) : g \in fds

(***************************************************************************)
(* Outcomes of the system calls, chosen by the environment.                *)
(***************************************************************************)
\* A write() of n bytes takes all of them, takes only a part, or fails.
ShortWriteCounts(n) == {k \in {n - 1} : 0 < k /\ k < n}

WriteOutcomes(n) ==
    {[ret |-> n, err |-> ENONE]}
    \cup {[ret |-> k, err |-> ENONE] : k \in ShortWriteCounts(n)}
    \cup {[ret |-> -1, err |-> e] : e \in {EAGAIN, ECONNRESET}}

\* pread() of one block at offset off of a file that does not change: the
\* bytes up to the end of the file, or a failure.
ReadOutcomes(off, size) ==
    {[ret |-> Min(TRANSFER_BLOCK_SIZE, size - off), err |-> ENONE],
     [ret |-> -1, err |-> EIO]}

\* accept() on the listening socket.
AcceptOutcomes ==
    {[ok |-> TRUE, err |-> ENONE]}
    \cup {[ok |-> FALSE, err |-> e] : e \in {EAGAIN, ECONNABORTED}}

\* errno after a call: written only when the call failed.
ErrnoAfter(old, outcome_err) == IF outcome_err = ENONE THEN old ELSE outcome_err

(***************************************************************************)
(* Protocol steps of one connection (server-common-multiplexing.h).        *)
(* Each takes the connection record and the outcome of the system calls    *)
(* it makes and returns the new record, its boolean result and the bytes   *)
(* it put on the wire.                                                     *)
(***************************************************************************)
NoSegment == <<>>
SizeSegment(n) == <<[kind |-> "size", off |-> 0, n |-> n]>>
DataSegment(off, n) == <<[kind |-> "data", off |-> off, n |-> n]>>

\* server_send_file_size as it would be if only a failed write() were
\* detected, a short one being taken for a complete one.
server_send_file_size_ShortAccepted(conn, w, errno_now) ==
    LET bytes_written == w.ret
        sent == IF bytes_written > 0 THEN SizeSegment(bytes_written) ELSE NoSegment
    IN  IF bytes_written = -1
        THEN IF errno_now = EAGAIN
             THEN [conn |-> conn, success |-> TRUE, sent |-> sent]
             ELSE [conn |-> [conn EXCEPT !.state = TRANSFER_FINISHED],
                   success |-> FALSE, sent |-> sent]
        ELSE [conn |-> [conn EXCEPT !.src_file_offset = 0,
                                    !.state = SEND_DATA_BLOCK],
              success |-> TRUE, sent |-> sent]

server_send_file_size(conn, w, errno_now) ==
    LET bytes_written == w.ret
        sent == IF bytes_written > 0 THEN SizeSegment(bytes_written) ELSE NoSegment
    IN  IF bytes_written # SIZEOF_FILE_SIZE
        THEN IF errno_now = EAGAIN
             THEN [conn |-> conn, success |-> TRUE, sent |-> sent]
             ELSE [conn |-> [conn EXCEPT !.state = TRANSFER_FINISHED],
                   success |-> FALSE, sent |-> sent]
        ELSE [conn |-> [conn EXCEPT !.src_file_offset = 0,
                                    !.state = SEND_DATA_BLOCK],
              success |-> TRUE, sent |-> sent]

\* server_send_file_block as it would be if the offset were advanced by the
\* block size instead of by the number of bytes written.
server_send_file_block_FixedAdvance(conn, size, r, w) ==
    LET bytes_read == r.ret
        bytes_written == w.ret
        sent == IF bytes_written > 0
                THEN DataSegment(conn.src_file_offset, bytes_written)
                ELSE NoSegment
    IN  IF bytes_read = -1 \/ (bytes_read = 0 /\ conn.src_file_offset # size)
        THEN [conn |-> [conn EXCEPT !.state = TRANSFER_FINISHED],
              success |-> FALSE, sent |-> NoSegment]
        ELSE IF bytes_written = -1 \/ bytes_written # bytes_read
        THEN [conn |-> [conn EXCEPT !.state = TRANSFER_FINISHED],
              success |-> FALSE, sent |-> sent]
        ELSE LET moved == [conn EXCEPT !.src_file_offset = @ + TRANSFER_BLOCK_SIZE]
             IN  IF moved.src_file_offset = size
                 THEN [conn |-> [moved EXCEPT !.state = TRANSFER_FINISHED],
                       success |-> FALSE, sent |-> sent]
                 ELSE [conn |-> moved, success |-> TRUE, sent |-> sent]

\* server_send_file_block as it would be if a failed or short write returned
\* false without marking the connection finished.
server_send_file_block_StateKept(conn, size, r, w) ==
    LET bytes_read == r.ret
        bytes_written == w.ret
        sent == IF bytes_written > 0
                THEN DataSegment(conn.src_file_offset, bytes_written)
                ELSE NoSegment
    IN  IF bytes_read = -1 \/ (bytes_read = 0 /\ conn.src_file_offset # size)
        THEN [conn |-> [conn EXCEPT !.state = TRANSFER_FINISHED],
              success |-> FALSE, sent |-> NoSegment]
        ELSE IF bytes_written = -1 \/ bytes_written # bytes_read
        THEN [conn |-> conn, success |-> FALSE, sent |-> sent]
        ELSE LET moved == [conn EXCEPT !.src_file_offset = @ + bytes_written]
             IN  IF moved.src_file_offset = size
                 THEN [conn |-> [moved EXCEPT !.state = TRANSFER_FINISHED],
                       success |-> FALSE, sent |-> sent]
                 ELSE [conn |-> moved, success |-> TRUE, sent |-> sent]

\* server_send_file_block as it would be if the end of the file were noticed
\* only by a later call that has nothing left to send.
server_send_file_block_CompletionDeferred(conn, size, r, w) ==
    LET bytes_read == r.ret
        bytes_written == w.ret
        sent == IF bytes_written > 0
                THEN DataSegment(conn.src_file_offset, bytes_written)
                ELSE NoSegment
    IN  IF bytes_read = -1 \/ (bytes_read = 0 /\ conn.src_file_offset # size)
        THEN [conn |-> [conn EXCEPT !.state = TRANSFER_FINISHED],
              success |-> FALSE, sent |-> NoSegment]
        ELSE IF bytes_written = -1 \/ bytes_written # bytes_read
        THEN [conn |-> [conn EXCEPT !.state = TRANSFER_FINISHED],
              success |-> FALSE, sent |-> sent]
        ELSE LET moved == [conn EXCEPT !.src_file_offset = @ + bytes_written]
             IN  IF moved.src_file_offset = size /\ bytes_written = 0
                 THEN [conn |-> [moved EXCEPT !.state = TRANSFER_FINISHED],
                       success |-> FALSE, sent |-> sent]
                 ELSE [conn |-> moved, success |-> TRUE, sent |-> sent]

server_send_file_block(conn, size, r, w) ==
    LET bytes_read == r.ret
        bytes_written == w.ret
        sent == IF bytes_written > 0
                THEN DataSegment(conn.src_file_offset, bytes_written)
                ELSE NoSegment
    IN  IF bytes_read = -1 \/ (bytes_read = 0 /\ conn.src_file_offset # size)
        THEN [conn |-> [conn EXCEPT !.state = TRANSFER_FINISHED],
              success |-> FALSE, sent |-> NoSegment]
        ELSE IF bytes_written = -1 \/ bytes_written # bytes_read
        THEN [conn |-> [conn EXCEPT !.state = TRANSFER_FINISHED],
              success |-> FALSE, sent |-> sent]
        ELSE LET moved == [conn EXCEPT !.src_file_offset = @ + bytes_written]
             IN  IF moved.src_file_offset = size
                 THEN [conn |-> [moved EXCEPT !.state = TRANSFER_FINISHED],
                       success |-> FALSE, sent |-> sent]
                 ELSE [conn |-> moved, success |-> TRUE, sent |-> sent]

(***************************************************************************)
(* The part of the state a dispatch step can change, as one record, so     *)
(* that a step is the composition of the calls the code makes.  fatal is   *)
(* set by a call that ends in exit(EXIT_FAILURE).                          *)
(***************************************************************************)
Cur ==
    [conns |-> conns, active |-> num_active_clients,
     connected |-> num_connected_clients, errno |-> errno,
     open_fds |-> open_fds, epoll_set |-> epoll_set,
     nonblock |-> nonblock_fds, wire |-> wire,
     io_error |-> io_error, seen_offsets |-> seen_offsets,
     calls |-> calls, fatal |-> FALSE]

Registered(s, fd) == \E e \in s.epoll_set : e.fd = fd

\* server_close_conn_socket as it would be if the close() call were missing.
server_close_conn_socket_Leak(s, fd) == s

\* close(fd), as used by server_close_conn_socket: exit on failure.  Closing
\* a descriptor removes it from the epoll interest list.
server_close_conn_socket(s, fd) ==
    IF s.fatal THEN s
    ELSE IF fd \in s.open_fds
    THEN [s EXCEPT !.open_fds = @ \ {fd},
                   !.epoll_set = {e \in @ : e.fd # fd},
                   !.nonblock = @ \ {fd},
                   !.calls = Append(@, [call |-> "close", fd |-> fd, ok |-> TRUE])]
    ELSE [s EXCEPT !.fatal = TRUE, !.errno = EBADF,
                   !.calls = Append(@, [call |-> "close", fd |-> fd, ok |-> FALSE])]

\* epoll_ctl(EPOLL_CTL_ADD) with the given tag: exit on failure.
epoll_conn_wait_on_socket(s, conn_i, fd) ==
    IF s.fatal THEN s
    ELSE IF fd \in s.open_fds /\ ~Registered(s, fd)
    THEN [s EXCEPT !.epoll_set = @ \cup {[fd |-> fd, tag |-> 1 + conn_i]},
                   !.calls = Append(@, [call |-> "ADD", fd |-> fd, ok |-> TRUE])]
    ELSE [s EXCEPT !.fatal = TRUE, !.errno = EBADF,
                   !.calls = Append(@, [call |-> "ADD", fd |-> fd, ok |-> FALSE])]

\* epoll_ctl(EPOLL_CTL_DEL): exit on failure.
epoll_conn_stop_waiting_on_socket(s, fd) ==
    IF s.fatal THEN s
    ELSE IF fd \in s.open_fds /\ Registered(s, fd)
    THEN [s EXCEPT !.epoll_set = {e \in @ : e.fd # fd},
                   !.calls = Append(@, [call |-> "DEL", fd |-> fd, ok |-> TRUE])]
    ELSE [s EXCEPT !.fatal = TRUE, !.errno = EBADF,
                   !.calls = Append(@, [call |-> "DEL", fd |-> fd, ok |-> FALSE])]

\* server_accept_connection_request(server, &conns[conn_i]) with accept()
\* outcome a; in_shutdown is what program_in_shutdown() returns.  The
\* boolean result is not part of the record: no caller reads it.  The
\* socket that accept() returns does not inherit O_NONBLOCK from the
\* listening socket, and the function sets only SO_LINGER, TCP_NODELAY and
\* TCP_CORK.
server_accept_connection_request(s, conn_i, a, in_shutdown) ==
    IF s.fatal THEN s
    ELSE IF a.ok
    THEN LET fd == LowestFreeFd(s.open_fds)
         IN  [s EXCEPT !.conns[conn_i].client_sock_fd = fd,
                       !.open_fds = @ \cup {fd},
                       !.nonblock = @ \ {fd},
                       !.calls = Append(@, [call |-> "accept", fd |-> fd,
                                            ok |-> TRUE])]
    ELSE LET failed == [s EXCEPT !.conns[conn_i].client_sock_fd = -1,
                                 !.errno = a.err,
                                 !.calls = Append(@, [call |-> "accept", fd |-> -1,
                                                      ok |-> FALSE])]
         IN  IF in_shutdown THEN failed ELSE [failed EXCEPT !.fatal = TRUE]

\* AcceptStep as it would be if the slot were chosen by the number of active
\* connections instead of the number of admitted ones.
AcceptStep_IndexByActive(s, v, a, in_shutdown) ==
    LET conn_i == s.active
        s1 == server_accept_connection_request(s, conn_i, a, in_shutdown)
        s2 == IF s1.fatal THEN s1
              ELSE [s1 EXCEPT !.conns[conn_i].state = SEND_FILE_SIZE]
        s3 == IF v = "epoll"
              THEN epoll_conn_wait_on_socket(s2, conn_i,
                                             s2.conns[conn_i].client_sock_fd)
              ELSE s2
    IN  IF s3.fatal THEN s3
        ELSE [s3 EXCEPT !.connected = SizeInc(@), !.active = SizeInc(@)]

\* AcceptStep as it would be if the slot's state were not set.
AcceptStep_StateNotSet(s, v, a, in_shutdown) ==
    LET conn_i == s.connected
        s1 == server_accept_connection_request(s, conn_i, a, in_shutdown)
        s3 == IF v = "epoll"
              THEN epoll_conn_wait_on_socket(s1, conn_i,
                                             s1.conns[conn_i].client_sock_fd)
              ELSE s1
    IN  IF s3.fatal THEN s3
        ELSE [s3 EXCEPT !.connected = SizeInc(@), !.active = SizeInc(@)]

\* The listening-socket branch of the dispatch loop.
AcceptStep(s, v, a, in_shutdown) ==
    LET conn_i == s.connected
        s1 == server_accept_connection_request(s, conn_i, a, in_shutdown)
        s2 == IF s1.fatal THEN s1
              ELSE [s1 EXCEPT !.conns[conn_i].state = SEND_FILE_SIZE]
        s3 == IF v = "epoll"
              THEN epoll_conn_wait_on_socket(s2, conn_i,
                                             s2.conns[conn_i].client_sock_fd)
              ELSE s2
    IN  IF s3.fatal THEN s3
        ELSE [s3 EXCEPT !.connected = SizeInc(@), !.active = SizeInc(@)]

\* HangupStep as it would be if the hangup branch fell through into the
\* error handling below it: the slot is counted out twice.
HangupStep_CountedTwice(s, v, conn_i) ==
    LET fd == s.conns[conn_i].client_sock_fd
        s1 == IF v = "epoll" THEN epoll_conn_stop_waiting_on_socket(s, fd) ELSE s
        s2 == server_close_conn_socket(s1, fd)
    IN  IF s2.fatal THEN s2
        ELSE [s2 EXCEPT !.conns[conn_i].state = TRANSFER_FINISHED,
                        !.active = SizeDec(SizeDec(@)),
                        !.io_error = @ \cup {conn_i}]

\* HangupStep as it would be if the socket were closed before it is taken
\* off the interest list.
HangupStep_CloseFirst(s, v, conn_i) ==
    LET fd == s.conns[conn_i].client_sock_fd
        s1 == server_close_conn_socket(s, fd)
        s2 == IF v = "epoll" THEN epoll_conn_stop_waiting_on_socket(s1, fd) ELSE s1
    IN  IF s2.fatal THEN s2
        ELSE [s2 EXCEPT !.conns[conn_i].state = TRANSFER_FINISHED,
                        !.active = SizeDec(@),
                        !.io_error = @ \cup {conn_i}]

\* HangupStep as it would be if num_active_clients were left alone.
HangupStep_NotCounted(s, v, conn_i) ==
    LET fd == s.conns[conn_i].client_sock_fd
        s1 == IF v = "epoll" THEN epoll_conn_stop_waiting_on_socket(s, fd) ELSE s
        s2 == server_close_conn_socket(s1, fd)
    IN  IF s2.fatal THEN s2
        ELSE [s2 EXCEPT !.conns[conn_i].state = TRANSFER_FINISHED,
                        !.io_error = @ \cup {conn_i}]

\* The hangup branch of the dispatch loop for slot conn_i.
HangupStep(s, v, conn_i) ==
    LET fd == s.conns[conn_i].client_sock_fd
        s1 == IF v = "epoll" THEN epoll_conn_stop_waiting_on_socket(s, fd) ELSE s
        s2 == server_close_conn_socket(s1, fd)
    IN  IF s2.fatal THEN s2
        ELSE [s2 EXCEPT !.conns[conn_i].state = TRANSFER_FINISHED,
                        !.active = SizeDec(@),
                        !.io_error = @ \cup {conn_i}]

\* What the environment may answer to the system calls of one send step on
\* connection conn: the pread() result r and the write() result w.
NoCall == [ret |-> 0, err |-> ENONE]
BadFdWrite == [ret |-> -1, err |-> EBADF]

WritesOn(s, conn_i, n) ==
    IF s.conns[conn_i].client_sock_fd \notin s.open_fds
    THEN {BadFdWrite}
    ELSE {w \in WriteOutcomes(n) :
            (w.ret \in ShortWriteCounts(n) /\ n = SIZEOF_FILE_SIZE
             /\ s.conns[conn_i].state = SEND_FILE_SIZE)
            => Len(s.wire[conn_i]) < MaxSizeWrites}

IoChoices(s, conn_i, size) ==
    LET conn == s.conns[conn_i]
    IN  CASE conn.state = SEND_FILE_SIZE ->
                {[r |-> NoCall, w |-> w] : w \in WritesOn(s, conn_i, SIZEOF_FILE_SIZE)}
          [] conn.state = SEND_DATA_BLOCK ->
                UNION {IF r.ret = -1
                       THEN {[r |-> r, w |-> NoCall]}
                       ELSE {[r |-> r, w |-> w] : w \in WritesOn(s, conn_i, r.ret)}
                       : r \in ReadOutcomes(conn.src_file_offset, size)}
          [] OTHER -> {[r |-> NoCall, w |-> NoCall]}

\* The writability branch of the dispatch loop for slot conn_i: the switch
\* on the slot's state, then the handling of a failed operation.
WritableStep(s, v, conn_i, size, io) ==
    LET conn == s.conns[conn_i]
        fd == conn.client_sock_fd
        errno_now == ErrnoAfter(ErrnoAfter(s.errno, io.r.err), io.w.err)
        res == CASE conn.state = SEND_FILE_SIZE ->
                      server_send_file_size(conn, io.w, errno_now)
                 [] conn.state = SEND_DATA_BLOCK ->
                      server_send_file_block(conn, size, io.r, io.w)
                 [] OTHER ->
                      [conn |-> conn, success |-> FALSE, sent |-> NoSegment]
        \* a failed read, a failed write other than would-block, a short write
        bad_io == io.r.ret = -1
                  \/ (io.w.ret = -1 /\ io.w.err # EAGAIN)
                  \/ (conn.state = SEND_FILE_SIZE /\ io.w.ret >= 0
                      /\ io.w.ret # SIZEOF_FILE_SIZE)
                  \/ (conn.state = SEND_DATA_BLOCK /\ io.r.ret >= 0
                      /\ io.w.ret >= 0 /\ io.w.ret # io.r.ret)
        s1 == [s EXCEPT !.conns[conn_i] = res.conn,
                        !.errno = errno_now,
                        !.wire[conn_i] = @ \o res.sent,
                        !.io_error = IF bad_io THEN @ \cup {conn_i} ELSE @,
                        !.seen_offsets[conn_i] =
                            IF conn.state = SEND_DATA_BLOCK
                            THEN Append(@, conn.src_file_offset) ELSE @]
    IN  IF conn.state = CONNECTION_EMPTY
        THEN [s EXCEPT !.fatal = TRUE]
        ELSE IF res.success THEN s1
        ELSE LET s2 == IF v = "epoll"
                       THEN epoll_conn_stop_waiting_on_socket(s1, fd) ELSE s1
                 s3 == server_close_conn_socket(s2, fd)
             IN  IF s3.fatal THEN s3
                 ELSE IF v = "epoll"
                 THEN [s3 EXCEPT !.conns[conn_i].state = TRANSFER_FINISHED,
                                 !.active = SizeDec(@)]
                 ELSE [s3 EXCEPT !.active = SizeDec(@)]

(***************************************************************************)
(* The event loops.                                                        *)
(***************************************************************************)
EmptyConn == [client_sock_fd |-> 0, src_file_offset |-> 0,
              state |-> CONNECTION_EMPTY]
NoPollFd == [fd |-> 0, events |-> {}, revents |-> {}]
NoStep == [op |-> "none"]

\* State of main() when it reaches while (true) for the first time.
SrvInit ==
    /\ variant \in {"epoll", "poll"}
    /\ max_conns \in MaxConnsArgs
    /\ src_file_size \in ServedFileSizes
    /\ pc = "top"
    /\ conns = [k \in Slots |-> EmptyConn]
    /\ num_active_clients = 0
    /\ num_connected_clients = 0
    /\ accept_new_connections = TRUE
    /\ accept_new_connections_prev = TRUE
    /\ events = <<>>
    /\ loop_i = 0
    /\ pollfds = [i \in 0 .. max_conns |-> NoPollFd]
    /\ received_sigint = FALSE
    /\ errno = ENONE
    /\ open_fds = IF variant = "epoll"
                  THEN {0, 1, 2, EPOLL_FD, SrcFileFd(variant), ListenSockFd(variant)}
                  ELSE {0, 1, 2, SrcFileFd(variant), ListenSockFd(variant)}
    /\ epoll_set = IF variant = "epoll"
                   THEN {[fd |-> ListenSockFd(variant), tag |-> 0]}
                   ELSE {}
    \* socket(AF_INET, SOCK_STREAM|SOCK_NONBLOCK, 0)
    /\ nonblock_fds = {ListenSockFd(variant)}
    /\ wire = [k \in Slots |-> <<>>]
    /\ stdout_finished = 0
    /\ exit_status = "running"
    /\ io_error = {}
    /\ last_step = NoStep
    /\ seen_offsets = [k \in Slots |-> <<>>]
    /\ sig_scene = "not_raised"
    /\ batch = <<>>
    /\ handled = <<>>
    /\ calls = <<>>

Config == <<variant, max_conns, src_file_size>>

\* exit(EXIT_FAILURE): the process ends with failure status.
Exit_Failure ==
    /\ pc' = "fatal"
    /\ exit_status' = "EXIT_FAILURE"

program_in_shutdown == received_sigint

\* accept_new_connections as it would be without the test of the table
\* being full.
AcceptNew_NoLimit(connected, in_shutdown) == ~in_shutdown

AcceptNew(connected, in_shutdown) == connected # max_conns /\ ~in_shutdown

\* Installs the record s computed by a dispatch step; next_pc, next_i and
\* next_events say where the dispatch loop continues when the process lives.
Install(s, next_pc, next_i, next_events) ==
    /\ conns' = s.conns
    /\ num_active_clients' = s.active
    /\ num_connected_clients' = s.connected
    /\ errno' = s.errno
    /\ wire' = s.wire
    /\ io_error' = s.io_error
    /\ seen_offsets' = s.seen_offsets
    /\ open_fds' = s.open_fds
    /\ epoll_set' = s.epoll_set
    /\ nonblock_fds' = s.nonblock
    /\ calls' = s.calls
    /\ IF s.fatal
       THEN /\ Exit_Failure
            /\ UNCHANGED <<loop_i, events>>
       ELSE /\ pc' = next_pc
            /\ loop_i' = next_i
            /\ events' = next_events
            /\ UNCHANGED exit_status

\* The test in front of epoll_server_stop_waiting_for_client as it would be
\* without accept_new_connections_prev.
AcceptStopsNow_EveryRound(prev, accept_new) == ~accept_new

\* if (accept_new_connections_prev && !accept_new_connections)
AcceptStopsNow(prev, accept_new) == prev /\ ~accept_new

\* Top of while (true) in the epoll server: accept_new_connections, the exit
\* test, and the one-time withdrawal of the listening socket.
LoopTopEpoll ==
    /\ pc = "top"
    /\ variant = "epoll"
    /\ LET accept_new == AcceptNew(num_connected_clients, program_in_shutdown)
           listen_fd == ListenSockFd(variant)
       IN  /\ accept_new_connections' = accept_new
           /\ IF num_active_clients = 0 /\ ~accept_new
              THEN /\ pc' = "exit"
                   /\ UNCHANGED <<accept_new_connections_prev, epoll_set,
                                  exit_status>>
              ELSE IF AcceptStopsNow(accept_new_connections_prev, accept_new)
              THEN /\ accept_new_connections_prev' = FALSE
                   \* epoll_server_stop_waiting_for_client
                   /\ IF \E e \in epoll_set : e.fd = listen_fd
                      THEN /\ epoll_set' = {e \in epoll_set : e.fd # listen_fd}
                           /\ pc' = "wait"
                           /\ UNCHANGED exit_status
                      ELSE /\ Exit_Failure
                           /\ UNCHANGED epoll_set
              ELSE /\ pc' = "wait"
                   /\ UNCHANGED <<accept_new_connections_prev, epoll_set,
                                  exit_status>>
    /\ last_step' = NoStep
    /\ batch' = <<>>
    /\ handled' = <<>>
    /\ UNCHANGED <<not_srv_vars, Config, conns, num_active_clients, num_connected_clients,
                   events, loop_i, pollfds, received_sigint, errno, open_fds,
                   nonblock_fds, wire, stdout_finished, io_error, seen_offsets,
                   sig_scene, calls>>

\* poll_server_wait_for_client / poll_server_do_not_wait_for_client and
\* poll_conn_wait_on_socket / poll_conn_do_not_wait_on_socket.
PollFdsFor(accept_new, cs, connected, old) ==
    [i \in DOMAIN old |->
        IF i = 0
        THEN IF accept_new
             THEN [fd |-> ListenSockFd("poll"), events |-> {"IN"}, revents |-> {}]
             ELSE [fd |-> -1, events |-> {}, revents |-> {}]
        ELSE IF i - 1 < connected
        THEN IF cs[i - 1].state \in {SEND_FILE_SIZE, SEND_DATA_BLOCK}
             THEN [fd |-> cs[i - 1].client_sock_fd, events |-> {"OUT", "HUP"},
                   revents |-> {}]
             ELSE [fd |-> -1, events |-> {}, revents |-> {}]
        ELSE old[i]]

\* Top of while (true) in the poll server: accept_new_connections, the exit
\* test, and the rebuilding of the pollfd array from the slots' states.
LoopTopPoll ==
    /\ pc = "top"
    /\ variant = "poll"
    /\ LET accept_new == AcceptNew(num_connected_clients, program_in_shutdown)
       IN  /\ accept_new_connections' = accept_new
           /\ IF num_active_clients = 0 /\ ~accept_new
              THEN /\ pc' = "exit"
                   /\ UNCHANGED <<pollfds, exit_status>>
              ELSE IF \E k \in Slots : k < num_connected_clients
                                       /\ conns[k].state = CONNECTION_EMPTY
              THEN /\ Exit_Failure
                   /\ UNCHANGED pollfds
              ELSE /\ pollfds' = PollFdsFor(accept_new, conns,
                                            num_connected_clients, pollfds)
                   /\ pc' = "wait"
                   /\ UNCHANGED exit_status
    /\ last_step' = NoStep
    /\ batch' = <<>>
    /\ handled' = <<>>
    /\ UNCHANGED <<not_srv_vars, Config, conns, num_active_clients, num_connected_clients,
                   accept_new_connections_prev, events, loop_i,
                   received_sigint, errno, open_fds, epoll_set, nonblock_fds,
                   wire, stdout_finished, io_error, seen_offsets, sig_scene,
                   calls>>

\* Readiness flags the kernel may report for a registered descriptor.
ConnReadiness == {{"OUT"}, {"HUP"}, {"OUT", "HUP"}}
ReadinessOf(tag) == IF tag = 0 THEN {{"IN"}} ELSE ConnReadiness

\* epoll_wait(epollfd, events, max_conns + 1, -1) returns: a batch with at
\* least one and at most max_conns + 1 events, one per ready descriptor of
\* the interest list, in any order.
WaitEpoll ==
    /\ pc = "wait"
    /\ variant = "epoll"
    /\ \E T \in (SUBSET epoll_set) \ {{}} :
         /\ Cardinality(T) <= max_conns + 1
         /\ \E f \in [1 .. Cardinality(T) -> T] :
              /\ \A i, j \in DOMAIN f : i # j => f[i] # f[j]
              /\ \E g \in [T -> ConnReadiness \cup {{"IN"}}] :
                   /\ \A e \in T : g[e] \in ReadinessOf(e.tag)
                   /\ events' = [i \in DOMAIN f |->
                                   [tag |-> f[i].tag, events |-> g[f[i]]]]
    /\ pc' = "events"
    /\ loop_i' = 0
    /\ last_step' = NoStep
    /\ batch' = events'
    /\ handled' = <<>>
    /\ UNCHANGED <<not_srv_vars, Config, conns, num_active_clients, num_connected_clients,
                   accept_new_connections, accept_new_connections_prev,
                   pollfds, received_sigint, errno, open_fds, epoll_set,
                   nonblock_fds, wire, stdout_finished, exit_status, io_error,
                   seen_offsets, sig_scene, calls>>

\* The entries of pollfds[0 .. nfds-1] that poll() reported ready, in the
\* order of the array.
RECURSIVE ReadyEntries(_, _)
ReadyEntries(pfds, nfds) ==
    IF nfds = 0 THEN <<>>
    ELSE LET i == nfds - 1
         IN  ReadyEntries(pfds, i)
             \o (IF pfds[i].revents # {}
                 THEN <<[tag |-> i, events |-> pfds[i].revents]>> ELSE <<>>)

\* poll(pollfds, 1 + num_connected_clients, -1) returns: revents is written
\* for every polled entry, empty for entries with a negative descriptor, and
\* at least one entry is ready.
WaitPoll ==
    /\ pc = "wait"
    /\ variant = "poll"
    /\ LET nfds == 1 + num_connected_clients
           polled == {i \in DOMAIN pollfds : i < nfds /\ pollfds[i].fd >= 0}
       IN  \E T \in (SUBSET polled) \ {{}} :
             \E g \in [T -> ConnReadiness \cup {{"IN"}}] :
               /\ \A i \in T : g[i] \in ReadinessOf(i)
               /\ pollfds' = [i \in DOMAIN pollfds |->
                                IF i >= nfds THEN pollfds[i]
                                ELSE [pollfds[i] EXCEPT
                                        !.revents = IF i \in T THEN g[i] ELSE {}]]
    /\ pc' = "poll_listen"
    /\ loop_i' = 0
    /\ last_step' = NoStep
    /\ batch' = ReadyEntries(pollfds', 1 + num_connected_clients)
    /\ handled' = <<>>
    /\ UNCHANGED <<not_srv_vars, Config, conns, num_active_clients, num_connected_clients,
                   accept_new_connections, accept_new_connections_prev,
                   events, received_sigint, errno, open_fds, epoll_set,
                   nonblock_fds, wire, stdout_finished, exit_status, io_error,
                   seen_offsets, sig_scene, calls>>

\* The choice of the branch as it would be if writability were tested
\* before hangup.
EventBranch_WritableFirst(flags) ==
    IF "OUT" \in flags THEN "writable"
    ELSE IF "HUP" \in flags THEN "hangup"
    ELSE "none"

\* if (revents & HUP) { ...; continue; }  if (revents & OUT) { ... }
EventBranch(flags) ==
    IF "HUP" \in flags THEN "hangup"
    ELSE IF "OUT" \in flags THEN "writable"
    ELSE "none"

\* The dispatch loop as it would be if its bound were one too small.
LoopEnds_OneEarly(i, n) == i + 2 >= n

\* for (i = 0; i < n; ++i): the iteration with index i is the last one.
LoopEnds(i, n) == i + 1 = n

\* One iteration of for (event_i ...) in the epoll server.
EpollEvent ==
    /\ pc = "events"
    /\ variant = "epoll"
    /\ loop_i < Len(events)
    /\ LET ev == events[loop_i + 1]
           conn_i == ev.tag - 1
           last == LoopEnds(loop_i, Len(events))
           next_pc == IF last THEN "top" ELSE "events"
           next_i == IF last THEN 0 ELSE loop_i + 1
           next_events == IF last THEN <<>> ELSE events
       IN  IF ev.tag = 0
           THEN \E a \in AcceptOutcomes :
                  /\ Install(AcceptStep(Cur, variant, a, program_in_shutdown),
                             next_pc, next_i, next_events)
                  /\ last_step' = [op |-> "accept", slot |-> num_connected_clients,
                                   ok |-> a.ok]
                  /\ handled' = Append(handled, [tag |-> 0, op |-> "accept"])
           ELSE IF EventBranch(ev.events) = "hangup"
           THEN /\ Install(HangupStep(Cur, variant, conn_i),
                           next_pc, next_i, next_events)
                /\ last_step' = [op |-> "hangup", slot |-> conn_i]
                /\ handled' = Append(handled, [tag |-> ev.tag, op |-> "hangup"])
           ELSE IF EventBranch(ev.events) = "writable"
           THEN \E io \in IoChoices(Cur, conn_i, src_file_size) :
                  /\ Install(WritableStep(Cur, variant, conn_i, src_file_size, io),
                             next_pc, next_i, next_events)
                  /\ last_step' = [op |-> "writable", slot |-> conn_i,
                                   r |-> io.r, w |-> io.w]
                  /\ handled' = Append(handled, [tag |-> ev.tag, op |-> "writable"])
           ELSE /\ Install(Cur, next_pc, next_i, next_events)
                /\ last_step' = NoStep
                /\ UNCHANGED handled
    /\ UNCHANGED <<not_srv_vars, Config, accept_new_connections, accept_new_connections_prev,
                   pollfds, received_sigint, stdout_finished, sig_scene, batch>>

\* if (pollfds[0U].revents & POLLIN) in the poll server.
PollListen ==
    /\ pc = "poll_listen"
    /\ variant = "poll"
    /\ IF "IN" \in pollfds[0].revents
       THEN \E a \in AcceptOutcomes :
              LET s == AcceptStep(Cur, variant, a, program_in_shutdown)
              IN  /\ Install(s, "poll_conns", 0, events)
                  /\ last_step' = [op |-> "accept", slot |-> num_connected_clients,
                                   ok |-> a.ok]
                  /\ handled' = Append(handled, [tag |-> 0, op |-> "accept"])
       ELSE /\ Install(Cur, IF num_connected_clients > 0 THEN "poll_conns" ELSE "top",
                       0, events)
            /\ last_step' = NoStep
            /\ UNCHANGED handled
    /\ UNCHANGED <<not_srv_vars, Config, accept_new_connections, accept_new_connections_prev,
                   pollfds, received_sigint, stdout_finished, sig_scene, batch>>

\* One iteration of for (conn_i ...) after poll() in the poll server.
PollConn ==
    /\ pc = "poll_conns"
    /\ variant = "poll"
    /\ loop_i < num_connected_clients
    /\ LET conn_i == loop_i
           revents == pollfds[1 + conn_i].revents
           last == LoopEnds(loop_i, num_connected_clients)
           next_pc == IF last THEN "top" ELSE "poll_conns"
           next_i == IF last THEN 0 ELSE loop_i + 1
       IN  IF EventBranch(revents) = "hangup"
           THEN /\ Install(HangupStep(Cur, variant, conn_i), next_pc, next_i, events)
                /\ last_step' = [op |-> "hangup", slot |-> conn_i]
                /\ handled' = Append(handled, [tag |-> 1 + conn_i, op |-> "hangup"])
           ELSE IF EventBranch(revents) = "writable"
           THEN \E io \in IoChoices(Cur, conn_i, src_file_size) :
                  /\ Install(WritableStep(Cur, variant, conn_i, src_file_size, io),
                             next_pc, next_i, events)
                  /\ last_step' = [op |-> "writable", slot |-> conn_i,
                                   r |-> io.r, w |-> io.w]
                  /\ handled' = Append(handled,
                                       [tag |-> 1 + conn_i, op |-> "writable"])
           ELSE /\ Install(Cur, next_pc, next_i, events)
                /\ last_step' = NoStep
                /\ UNCHANGED handled
    /\ UNCHANGED <<not_srv_vars, Config, accept_new_connections, accept_new_connections_prev,
                   pollfds, received_sigint, stdout_finished, sig_scene, batch>>

\* Exactly one client has been admitted and it is in the middle of its
\* transfer.
OneClientMidTransfer ==
    /\ num_connected_clients = 1
    /\ num_active_clients = 1
    /\ conns[0].state = SEND_DATA_BLOCK
    /\ conns[0].client_sock_fd \in open_fds
    /\ conns[0].src_file_offset < src_file_size

\* SIGINT is delivered: sigint_handler stores the flag.  A signal that
\* arrives while the process sleeps in epoll_wait()/poll() makes the call
\* return -1 (EINTR; the handler is installed with sa_flags = 0), which
\* main() answers with exit(EXIT_FAILURE); a signal that arrives just before
\* the call is entered only sets the flag.
Sigint ==
    /\ pc \notin {"done", "fatal"}
    /\ ~received_sigint
    /\ received_sigint' = TRUE
    /\ sig_scene' = IF OneClientMidTransfer THEN "one_mid_transfer" ELSE "other"
    /\ \/ /\ pc = "wait"
          /\ Exit_Failure
          /\ errno' = "EINTR"
       \/ /\ UNCHANGED <<pc, exit_status, errno>>
    /\ last_step' = NoStep
    /\ UNCHANGED <<not_srv_vars, Config, conns, num_active_clients, num_connected_clients,
                   accept_new_connections, accept_new_connections_prev, events,
                   loop_i, pollfds, open_fds, epoll_set, nonblock_fds, wire,
                   stdout_finished, io_error, seen_offsets, batch, handled,
                   calls>>

\* After the loop: server_close_listen_socket, server_close_src_file,
\* close(epollfd), printf("Transfer finished\n"), return EXIT_SUCCESS.
LeaveMain ==
    /\ pc = "exit"
    /\ LET closing == {ListenSockFd(variant), SrcFileFd(variant)}
                      \cup (IF variant = "epoll" THEN {EPOLL_FD} ELSE {})
       IN  IF {ListenSockFd(variant), SrcFileFd(variant)} \subseteq open_fds
           THEN /\ open_fds' = open_fds \ closing
                /\ epoll_set' = {}
                /\ nonblock_fds' = nonblock_fds \ closing
                /\ stdout_finished' = stdout_finished + 1
                /\ pc' = "done"
                /\ exit_status' = "EXIT_SUCCESS"
           ELSE /\ Exit_Failure
                /\ UNCHANGED <<open_fds, epoll_set, nonblock_fds, stdout_finished>>
    /\ last_step' = NoStep
    /\ UNCHANGED <<not_srv_vars, Config, conns, num_active_clients, num_connected_clients,
                   accept_new_connections, accept_new_connections_prev, events,
                   loop_i, pollfds, received_sigint, errno, wire, io_error,
                   seen_offsets, sig_scene, batch, handled, calls>>

Next ==
    \/ LoopTopEpoll
    \/ LoopTopPoll
    \/ WaitEpoll
    \/ WaitPoll
    \/ EpollEvent
    \/ PollListen
    \/ PollConn
    \/ Sigint
    \/ LeaveMain

\* The part of the model for the client's side of the wire is switched off.
RtOff ==
    /\ rt_pc = "off"
    /\ rt_little_endian = TRUE
    /\ rt_file = <<>>
    /\ rt_conn = EmptyConn
    /\ rt_stream = <<>>
    /\ rt_closed = FALSE
    /\ rt_client = [dst_file_size |-> 0, dst_file_offset |-> 0]
    /\ rt_dst = <<>>
    /\ rt_attempt = 0
    /\ rt_received = 0
    /\ rt_recv_errors = 0

\* The side-by-side run of the two servers is switched off.
PairOff ==
    /\ pair_pc = "off"
    /\ pair_epoll = <<>>
    /\ pair_poll = <<>>
    /\ pair_sigint = FALSE

\* The sequential server is switched off.
SeqOff ==
    /\ seq_pc = "off"
    /\ seq_num_clients = 0
    /\ seq_file_size = 0
    /\ seq_client_i = 0
    /\ seq_conn = [client_sock_fd |-> -1, src_file_offset |-> 0]
    /\ seq_open_fds = {}
    /\ seq_sigint = FALSE
    /\ seq_calls = <<>>

\* The thread-per-connection server is switched off.
ThrOff ==
    /\ thr_pc = "off"
    /\ thr_num_clients = 0
    /\ thr_file_size = 0
    /\ thr_client_i = 0
    /\ thr_join_i = 0
    /\ thr_args = <<>>
    /\ thr_threads = <<>>
    /\ thr_open_fds = {}
    /\ thr_sigint = FALSE
    /\ thr_access = {}
    /\ thr_late_io = FALSE

\* The futex mutex programs are switched off.
FxOff ==
    /\ fx_variant = "off"
    /\ fx_num_threads = 0
    /\ fx_num_iterations = 0
    /\ fx_mutex = 0
    /\ fx_var = 0
    /\ fx_threads = <<>>
    /\ fx_printed = FALSE

\* The ticket lock program is switched off.
TkOff ==
    /\ tk_num_threads = 0
    /\ tk_num_iterations = 0
    /\ tk_next_ticket = 0
    /\ tk_now_serving = 0
    /\ tk_var = 0
    /\ tk_threads = <<>>
    /\ tk_drawn = <<>>
    /\ tk_entered = <<>>

\* The ring buffer program is switched off.
RbOff ==
    /\ rb_variant = "off"
    /\ rb_num_iterations = 0
    /\ rb_queue = <<>>
    /\ rb_producer = <<>>
    /\ rb_consumer = <<>>
    /\ rb_enqueued = <<>>
    /\ rb_dequeued = <<>>
    /\ rb_overwritten = FALSE
    /\ rb_exit = "running"

\* The seqlock program is switched off.
SqOff ==
    /\ sq_config = <<>>
    /\ sq_seqlock = 0
    /\ sq_low = 0
    /\ sq_high = 0
    /\ sq_writers = <<>>
    /\ sq_readers = <<>>
    /\ sq_history = {}

\* io-uring-cp is switched off.
UrOff ==
    /\ ur_pc = "off"
    /\ ur_queue_size = 0
    /\ ur_cell_i = 0
    /\ ur_status = <<>>
    /\ ur_sq = {}
    /\ ur_kernel = {}
    /\ ur_cq = <<>>
    /\ ur_done = <<>>

\* linux-aio-cp and posix-aio-cp are switched off.
AioOff ==
    /\ aio_variant = "off"
    /\ aio_pc = "off"
    /\ aio_queue_size = 0
    /\ aio_file_size = 0
    /\ aio_dst_size = 0
    /\ aio_src_size = 0
    /\ aio_src_off = 0
    /\ aio_num_io_reqs = 0
    /\ aio_i = 0
    /\ aio_cbs = <<>>
    /\ aio_events = <<>>

\* Everything outside the file distribution programs is switched off.
LabOff == FxOff /\ TkOff /\ RbOff /\ SqOff /\ UrOff /\ AioOff

Init == SrvInit /\ RtOff /\ PairOff /\ SeqOff /\ ThrOff /\ LabOff

Spec == Init /\ [][Next]_vars

TypeOK ==
    /\ pc \in {"top", "wait", "events", "poll_listen", "poll_conns", "exit",
               "done", "fatal"}
    /\ num_connected_clients \in 0 .. SIZE_MAX
    /\ num_active_clients \in 0 .. SIZE_MAX
    /\ \A k \in Slots : conns[k].state \in {CONNECTION_EMPTY, SEND_FILE_SIZE,
                                           SEND_DATA_BLOCK, TRANSFER_FINISHED}

(***************************************************************************)
(* Properties of the event loops.                                          *)
(***************************************************************************)
Live(k) == conns[k].state \in {SEND_FILE_SIZE, SEND_DATA_BLOCK}

StrictlyIncreasing(seq) ==
    \A i, j \in DOMAIN seq : i < j => seq[i] < seq[j]

RECURSIVE SizeBytes(_)
\* Number of file-size bytes among the writes w.
SizeBytes(w) ==
    IF w = <<>> THEN 0
    ELSE (IF Head(w).kind = "size" THEN Head(w).n ELSE 0) + SizeBytes(Tail(w))

\* C1: in both servers, in every reachable state of the event loop, the
\* number of admitted connections never exceeds max_conns and the number of
\* active connections lies between zero and the number admitted (the
\* unsigned counter never wraps below zero).
C1_CountsBounded ==
    /\ num_connected_clients <= max_conns
    /\ 0 <= num_active_clients
    /\ num_active_clients <= num_connected_clients

\* C1 witness: a full table in which a connection has already been counted out.
C1_Witness ==
    /\ max_conns = 2
    /\ num_connected_clients = max_conns
    /\ num_active_clients = 1
    /\ io_error # {}

\* C2 (as claimed): the offsets seen by successive server_send_file_block
\* steps of a connection are strictly increasing and lie in 0 .. file size,
\* and a connection that is Finished without having seen a read error, a
\* write error or a hangup has sent the whole file.
C2_Original ==
    \A k \in Slots :
        /\ StrictlyIncreasing(seen_offsets[k])
        /\ \A i \in DOMAIN seen_offsets[k] :
               0 <= seen_offsets[k][i] /\ seen_offsets[k][i] <= src_file_size
        /\ 0 <= conns[k].src_file_offset
        /\ conns[k].src_file_offset <= src_file_size
        /\ (conns[k].state = TRANSFER_FINISHED /\ k \notin io_error)
              => conns[k].src_file_offset = src_file_size

\* C4 (as claimed): on every connection the 8 bytes of the file size reach
\* the socket at most once, and no data byte is written before all 8 of them.
C4_Original ==
    \A k \in Slots :
        /\ SizeBytes(wire[k]) <= SIZEOF_FILE_SIZE
        /\ \A i \in DOMAIN wire[k] :
               wire[k][i].kind = "data"
                  => SizeBytes(SubSeq(wire[k], 1, i - 1)) = SIZEOF_FILE_SIZE

\* Slot k's socket is registered for readiness notification: it is in the
\* epoll interest list under tag 1 + k, or it is what the poll server puts
\* into pollfds[1 + k] before it calls poll().
ArmedIn(v, es, cs, connected, fds, k) ==
    IF v = "epoll"
    THEN \E e \in es : e.tag = 1 + k /\ e.fd = cs[k].client_sock_fd /\ e.fd \in fds
    ELSE /\ k < connected
         /\ cs[k].state \in {SEND_FILE_SIZE, SEND_DATA_BLOCK}
         /\ cs[k].client_sock_fd \in fds

Armed(k) == ArmedIn(variant, epoll_set, conns, num_connected_clients, open_fds, k)

\* The same after the step being taken.
ArmedAfter(k) ==
    ArmedIn(variant, epoll_set', conns', num_connected_clients', open_fds', k)

\* The listening socket is registered for readiness notification.
ListenArmedIn(v, es, pfds) ==
    IF v = "epoll"
    THEN \E e \in es : e.tag = 0 /\ e.fd = ListenSockFd(v)
    ELSE pfds[0].fd = ListenSockFd(v)

\* The step being taken is the writability branch for a slot whose state
\* was st.
WritableStepOn(st) ==
    /\ last_step'.op = "writable"
    /\ conns[last_step'.slot].state = st

\* A frame condition: nothing about any slot other than k changes: its
\* record, what it has sent, its registration and, if it holds a connection,
\* whether its socket is open.
OtherSlotsUntouched(k) ==
    \A j \in Slots \ {k} :
        /\ conns'[j] = conns[j]
        /\ wire'[j] = wire[j]
        /\ ArmedAfter(j) = Armed(j)
        /\ Live(j) => ((conns[j].client_sock_fd \in open_fds')
                          = (conns[j].client_sock_fd \in open_fds))

\* C5 (as claimed): a would-block result of the socket write of a
\* server_send_file_block step is no error: the slot's state and offset are
\* unchanged, its socket stays open and registered and active_count is not
\* decremented.
C5_Original ==
    [][ (/\ WritableStepOn(SEND_DATA_BLOCK)
         /\ last_step'.w.ret = -1
         /\ last_step'.w.err = EAGAIN)
        => LET k == last_step'.slot
           IN  /\ conns'[k] = conns[k]
               /\ conns[k].client_sock_fd \in open_fds'
               /\ ArmedAfter(k)
               /\ num_active_clients' = num_active_clients ]_vars

\* C6 (as claimed): a server_send_file_size step moves the slot to
\* SendingData only when write() took all 8 bytes; a short write or a
\* would-block result leaves it in SendingSize, open and registered,
\* whatever errno held before; any other write failure moves only this slot
\* to Finished and the server keeps running.
C6_Original ==
    [][ WritableStepOn(SEND_FILE_SIZE)
        => LET k == last_step'.slot
               w == last_step'.w
           IN  /\ (conns'[k].state = SEND_DATA_BLOCK) <=> (w.ret = SIZEOF_FILE_SIZE)
               /\ ((w.ret \in 0 .. (SIZEOF_FILE_SIZE - 1))
                      \/ (w.ret = -1 /\ w.err = EAGAIN))
                  => /\ conns'[k].state = SEND_FILE_SIZE
                     /\ conns[k].client_sock_fd \in open_fds'
                     /\ ArmedAfter(k)
               /\ (w.ret = -1 /\ w.err # EAGAIN)
                  => /\ conns'[k].state = TRANSFER_FINISHED
                     /\ pc' # "fatal"
                     /\ OtherSlotsUntouched(k) ]_vars

\* The step being taken handles a failure of slot k: a hangup event, or a
\* send step whose pread() failed, whose write() failed with an error other
\* than would-block, or whose write() of a data block was short.
FailureStepOn(k) ==
    /\ last_step'.slot = k
    /\ \/ last_step'.op = "hangup"
       \/ /\ last_step'.op = "writable"
          /\ \/ last_step'.r.ret = -1
             \/ (last_step'.w.ret = -1 /\ last_step'.w.err # EAGAIN)
             \/ /\ conns[k].state = SEND_DATA_BLOCK
                /\ last_step'.r.ret >= 0
                /\ last_step'.w.ret >= 0
                /\ last_step'.w.ret # last_step'.r.ret

C8_Original ==
    sig_scene = "one_mid_transfer"
    => /\ exit_status # "EXIT_FAILURE"
       /\ pc = "done"
          => /\ exit_status = "EXIT_SUCCESS"
             /\ stdout_finished = 1
             /\ ~ListenArmedIn(variant, epoll_set, pollfds)
             /\ (0 \in io_error \/ conns[0].src_file_offset = src_file_size)

\* C9 (as claimed): once the shutdown flag is set it stays set,
\* num_connected_clients never increases again, a connection that is in
\* SendingSize or SendingData leaves that state only through a dispatch step
\* of its own, and the delivery of the signal does not end a process that
\* holds such a connection.
C9_Original ==
    [][ /\ received_sigint => received_sigint'
        /\ received_sigint
           => /\ num_connected_clients' = num_connected_clients
              /\ \A k \in Slots :
                    (Live(k) /\ conns'[k].state # conns[k].state)
                    => /\ last_step'.op \in {"hangup", "writable"}
                       /\ last_step'.slot = k
        /\ (~received_sigint /\ received_sigint' /\ \E k \in Slots : Live(k))
           => /\ exit_status' = exit_status
              /\ conns' = conns
              /\ open_fds' = open_fds ]_vars

\* C10: the loop is left normally exactly by a loop-top check that finds
\* num_active_clients = 0 and accept_new_connections false; it is never
\* left while a slot is in SendingSize or SendingData; leaving it prints
\* "Transfer finished" once and ends the process with success status.
C10_NormalExit ==
    /\ [][ /\ (pc = "top" /\ pc' # "top")
              => ((pc' = "exit")
                    <=> (num_active_clients = 0
                         /\ ~AcceptNew(num_connected_clients, received_sigint)))
           /\ (pc' = "exit" /\ pc # "exit") => pc = "top"
           /\ (pc = "exit" /\ pc' # "exit")
              => /\ pc' = "done"
                 /\ exit_status' = "EXIT_SUCCESS"
                 /\ stdout_finished' = 1
           /\ (pc' = "done") => (pc \in {"exit", "done"})
           /\ stdout_finished' # stdout_finished => pc' = "done" ]_vars
    /\ [](pc \in {"exit", "done"}
            => /\ \A k \in Slots : ~Live(k)
               /\ num_active_clients = 0
               /\ ~AcceptNew(num_connected_clients, received_sigint))
    /\ [](pc = "done" <=> exit_status = "EXIT_SUCCESS")
    /\ [](stdout_finished = (IF pc = "done" THEN 1 ELSE 0))

\* C10 witness: the process has ended normally after serving a full table,
\* one connection completely and one that hung up.
C10_Witness ==
    /\ pc = "done"
    /\ max_conns = 2
    /\ num_connected_clients = 2
    /\ \E k \in Slots : /\ conns[k].src_file_offset = src_file_size
                        /\ k \notin io_error
                        /\ src_file_size > 0
    /\ \E k \in Slots : k \in io_error

(***************************************************************************)
(* The wire round trip: one server connection served without error, and    *)
(* the client of 05_tcp_multiplexing/client/client.c reading it.           *)
(***************************************************************************)
\* The byte of a uint64_t value x at position p, counted from the least
\* significant byte.
RECURSIVE ByteOf(_, _)
ByteOf(x, p) == IF p = 0 THEN x % 256 ELSE ByteOf(x \div 256, p - 1)

Reverse(seq) == [i \in 1 .. Len(seq) |-> seq[Len(seq) + 1 - i]]

\* The memory image of the uint64_t value x on a host of the given byte order.
U64Image(x, little_endian) ==
    LET lsb_first == [i \in 1 .. SIZEOF_FILE_SIZE |-> ByteOf(x, i - 1)]
    IN  IF little_endian THEN lsb_first ELSE Reverse(lsb_first)

RECURSIVE MsbFirstValue(_)
MsbFirstValue(seq) ==
    IF seq = <<>> THEN 0
    ELSE MsbFirstValue(SubSeq(seq, 1, Len(seq) - 1)) * 256 + seq[Len(seq)]

\* The uint64_t value whose memory image is img.
U64Value(img, little_endian) ==
    MsbFirstValue(IF little_endian THEN Reverse(img) ELSE img)

\* htobe64 on the memory image of its argument: a byte swap on a
\* little-endian host, nothing on a big-endian one.
htobe64(img, little_endian) == IF little_endian THEN Reverse(img) ELSE img

\* The bytes that one write() of a protocol step puts into the socket: the
\* first n bytes of the file-size field, or n bytes of the block that pread()
\* took from the file at offset off.
SegmentBytes(seg, file, little_endian) ==
    IF seg.kind = "size"
    THEN SubSeq(htobe64(U64Image(Len(file), little_endian), little_endian), 1, seg.n)
    ELSE SubSeq(file, seg.off + 1, seg.off + seg.n)

RECURSIVE WireBytes(_, _, _)
WireBytes(w, file, little_endian) ==
    IF w = <<>> THEN <<>>
    ELSE SegmentBytes(Head(w), file, little_endian)
         \o WireBytes(Tail(w), file, little_endian)

\* pwrite(fd, buf, count, off) on a file with content dst: the first count
\* bytes of buf replace the content at off, the file growing when needed.
PWrite_OffsetIgnored(dst, buf, count, off) ==
    SubSeq(buf, 1, count) \o SubSeq(dst, count + 1, Len(dst))

PWrite(dst, buf, count, off) ==
    LET old == Len(dst)
        before == IF off <= old THEN SubSeq(dst, 1, off)
                  ELSE dst \o [i \in 1 .. off - old |-> 0]
    IN  before \o SubSeq(buf, 1, count) \o SubSeq(dst, off + count + 1, old)

\* ftruncate(fd, length) on a file with content dst.
FTruncate(dst, length) ==
    IF length <= Len(dst) THEN SubSeq(dst, 1, length)
    ELSE dst \o [i \in 1 .. length - Len(dst) |-> 0]

\* Contents of the source file: two patterns for each length.
PatternA(i) == (i * 7 + (i \div TRANSFER_BLOCK_SIZE) * 101) % 256
PatternB(i) == (255 - (i % 256) + (i \div 256)) % 256

FileContents ==
    {[i \in 1 .. n |-> PatternA(i)] : n \in FileSizes}
    \cup {[i \in 1 .. n |-> PatternB(i)] : n \in FileSizes}

\* How many bytes one recv() of at most TRANSFER_BLOCK_SIZE bytes may
\* return when avail bytes have arrived: anything from 1 byte to all of them.
RecvCounts(avail) ==
    {n \in {1, 700, TRANSFER_BLOCK_SIZE, avail} :
        0 < n /\ n <= avail /\ n <= TRANSFER_BLOCK_SIZE}

RtInit ==
    /\ rt_pc = "recv_file_size"
    /\ rt_little_endian \in BOOLEAN
    /\ rt_file \in FileContents
    /\ rt_conn = [client_sock_fd |-> 6, src_file_offset |-> 0,
                  state |-> SEND_FILE_SIZE]
    /\ rt_stream = <<>>
    /\ rt_closed = FALSE
    /\ rt_client = [dst_file_size |-> 0, dst_file_offset |-> 0]
    /\ rt_dst = <<>>
    /\ rt_attempt = 1
    /\ rt_received = 0
    /\ rt_recv_errors = 0

\* One writability event of the connection, served without error: every
\* system call takes or returns all the bytes asked for.  A step that
\* reports failure (here: the end of the transfer) closes the socket.
RtServerStep ==
    /\ ~rt_closed
    /\ rt_conn.state \in {SEND_FILE_SIZE, SEND_DATA_BLOCK}
    /\ LET size == Len(rt_file)
           r == [ret |-> Min(TRANSFER_BLOCK_SIZE, size - rt_conn.src_file_offset),
                 err |-> ENONE]
           res == IF rt_conn.state = SEND_FILE_SIZE
                  THEN server_send_file_size(
                           rt_conn, [ret |-> SIZEOF_FILE_SIZE, err |-> ENONE], ENONE)
                  ELSE server_send_file_block(rt_conn, size, r, r)
       IN  /\ rt_conn' = res.conn
           /\ rt_stream' = rt_stream \o WireBytes(res.sent, rt_file, rt_little_endian)
           /\ rt_closed' = ~res.success
    /\ UNCHANGED <<not_rt_vars, rt_pc, rt_little_endian, rt_file, rt_client, rt_dst,
                   rt_attempt, rt_received, rt_recv_errors>>

\* client_recv_file_size: recv(..., MSG_WAITALL) returns when all 8 bytes
\* have arrived, or with fewer when the server has closed the connection.
client_recv_file_size ==
    /\ rt_pc = "recv_file_size"
    /\ IF Len(rt_stream) >= SIZEOF_FILE_SIZE
       THEN LET file_size == SubSeq(rt_stream, 1, SIZEOF_FILE_SIZE)
            IN  /\ rt_client' =
                      [dst_file_size |->
                          U64Value(htobe64(file_size, rt_little_endian),
                                   rt_little_endian),
                       dst_file_offset |-> 0]
                /\ rt_stream' = SubSeq(rt_stream, SIZEOF_FILE_SIZE + 1, Len(rt_stream))
                /\ rt_pc' = "open_dst_file"
       ELSE /\ rt_closed
            /\ rt_pc' = "reconnect"
            /\ rt_stream' = <<>>
            /\ UNCHANGED rt_client
    /\ UNCHANGED <<not_rt_vars, rt_little_endian, rt_file, rt_conn, rt_closed, rt_dst,
                   rt_attempt, rt_received, rt_recv_errors>>

\* client_open_dst_file: open(O_CREAT|O_TRUNC) empties the file, fallocate()
\* extends it to dst_file_size zero bytes and fails for a length of 0.
client_open_dst_file ==
    /\ rt_pc = "open_dst_file"
    /\ IF rt_client.dst_file_size = 0
       THEN /\ rt_dst' = <<>>
            /\ rt_pc' = "exit_failure"
       ELSE /\ rt_dst' = [i \in 1 .. rt_client.dst_file_size |-> 0]
            /\ rt_pc' = "recv_file_block"
    /\ UNCHANGED <<not_rt_vars, rt_little_endian, rt_file, rt_conn, rt_stream,
                   rt_closed, rt_client, rt_attempt, rt_received, rt_recv_errors>>

\* The test of client_recv_file_block's result in main() as it would be if
\* a failure ended the loop instead of restarting the connection.
AfterRecvFileBlock_LoopLeft(success) ==
    IF success THEN "recv_file_block" ELSE "received_file"

\* if (!success) { client_close_socket(&client); goto start_connection; }
AfterRecvFileBlock(success) ==
    IF success THEN "recv_file_block" ELSE "reconnect"

\* One iteration of while (dst_file_offset != dst_file_size) with
\* client_recv_file_block in it, or the end of the loop.
client_recv_file_block ==
    /\ rt_pc = "recv_file_block"
    /\ IF rt_client.dst_file_offset = rt_client.dst_file_size
       THEN \* client_close_socket, client_close_dst_file: ftruncate
            /\ rt_dst' = FTruncate(rt_dst, rt_client.dst_file_size)
            /\ rt_pc' = "received_file"
            /\ UNCHANGED <<rt_stream, rt_client, rt_received>>
       ELSE IF rt_stream = <<>>
       THEN \* recv() returns 0 once the server has closed the connection
            /\ rt_closed
            /\ rt_pc' = AfterRecvFileBlock(FALSE)
            /\ UNCHANGED <<rt_stream, rt_client, rt_dst, rt_received>>
       ELSE \E bytes_read \in RecvCounts(Len(rt_stream)) :
              /\ rt_stream' = SubSeq(rt_stream, bytes_read + 1, Len(rt_stream))
              /\ rt_received' = rt_received + bytes_read
              /\ IF rt_client.dst_file_offset > SIZE_MAX \div 2
                 THEN \* pwrite() at a negative off_t fails
                      /\ rt_pc' = "exit_failure"
                      /\ UNCHANGED <<rt_dst, rt_client>>
                 ELSE \* the received block is the head of the stream
                      /\ rt_dst' = PWrite(rt_dst, rt_stream, bytes_read,
                                          rt_client.dst_file_offset)
                      /\ rt_client' = [rt_client EXCEPT
                                         !.dst_file_offset = @ + bytes_read]
                      /\ rt_pc' = AfterRecvFileBlock(TRUE)
    /\ UNCHANGED <<not_rt_vars, rt_little_endian, rt_file, rt_conn, rt_closed,
                   rt_attempt, rt_recv_errors>>

\* The event loops are switched off.
SrvStopped ==
    /\ pc = "off"
    /\ conns = [k \in Slots |-> EmptyConn]
    /\ num_active_clients = 0
    /\ num_connected_clients = 0
    /\ accept_new_connections = FALSE
    /\ accept_new_connections_prev = FALSE
    /\ events = <<>>
    /\ loop_i = 0
    /\ pollfds = [i \in 0 .. max_conns |-> NoPollFd]
    /\ received_sigint = FALSE
    /\ errno = ENONE
    /\ open_fds = {}
    /\ epoll_set = {}
    /\ nonblock_fds = {}
    /\ wire = [k \in Slots |-> <<>>]
    /\ stdout_finished = 0
    /\ exit_status = "running"
    /\ io_error = {}
    /\ last_step = NoStep
    /\ seen_offsets = [k \in Slots |-> <<>>]
    /\ sig_scene = "not_raised"
    /\ batch = <<>>
    /\ handled = <<>>
    /\ calls = <<>>

SrvOff ==
    /\ variant = "off"
    /\ max_conns = 1
    /\ src_file_size = 0
    /\ SrvStopped

\* The file distribution programs are switched off.
NetOff == SrvOff /\ RtOff /\ PairOff /\ SeqOff /\ ThrOff

RoundTripInit == RtInit /\ SrvOff /\ PairOff /\ SeqOff /\ ThrOff /\ LabOff

RoundTripNext ==
    \/ RtServerStep
    \/ client_recv_file_size
    \/ client_open_dst_file
    \/ client_recv_file_block

SpecRoundTrip == RoundTripInit /\ [][RoundTripNext]_vars

ReportedWritable(k) ==
    \/ /\ WaitEpoll
       /\ \E i \in DOMAIN events' :
             events'[i].tag = 1 + k /\ "OUT" \in events'[i].events
    \/ /\ WaitPoll
       /\ k \in Slots
       /\ "OUT" \in pollfds'[1 + k].revents

\* The event loops with a scheduler that keeps the process running and a
\* kernel that reports a registered socket writable again and again.
SpecProgress ==
    /\ Init
    /\ [][Next]_vars
    /\ WF_vars(LoopTopEpoll \/ LoopTopPoll \/ EpollEvent \/ PollListen
                 \/ PollConn \/ LeaveMain)
    /\ \A k \in 0 .. 1 : SF_vars(ReportedWritable(k))

\* Slot k holds an accepted connection that is being served by a running
\* process.
Served(k) ==
    IF k \in Slots
    THEN /\ Live(k)
         /\ conns[k].client_sock_fd \in open_fds
         /\ exit_status = "running"
    ELSE FALSE

\* Slot k is Finished, having sent the whole file or having met a hangup, a
\* failed read, a failed write other than would-block or a short write.
Completed(k) ==
    IF k \in Slots
    THEN /\ conns[k].state = TRANSFER_FINISHED
         /\ (conns[k].src_file_offset = src_file_size \/ k \in io_error)
    ELSE FALSE

WriteCalledOn(k) ==
    /\ last_step'.op = "writable"
    /\ last_step'.slot = k
    /\ \/ conns[k].state = SEND_FILE_SIZE
       \/ conns[k].state = SEND_DATA_BLOCK /\ last_step'.r.ret # -1

\* C12 (as claimed): whenever accept() is called on the listening socket or
\* write() on a client socket, that socket is in non-blocking mode, so that
\* only the wait call can suspend the loop.
C12_Original ==
    [][ /\ last_step'.op = "accept" => ListenSockFd(variant) \in nonblock_fds
        /\ \A k \in Slots :
              WriteCalledOn(k) => conns[k].client_sock_fd \in nonblock_fds ]_vars

\* The dispatch step that a ready tag with the given flags calls for.
StepFor(e) ==
    [tag |-> e.tag,
     op |-> IF e.tag = 0 THEN "accept"
            ELSE IF "HUP" \in e.events THEN "hangup" ELSE "writable"]

\* C13: every ready tag that one wait call returned is dispatched exactly
\* once, in the order in which it was returned, before the loop comes back
\* to its top and waits again: while the batch is being dispatched the
\* steps taken are a prefix of the steps the batch calls for, and at the
\* loop top they are all of them.
C13_BatchHandledOnce ==
    /\ \A i, j \in DOMAIN batch : i # j => batch[i].tag # batch[j].tag
    /\ Len(handled) <= Len(batch)
    /\ \A i \in DOMAIN handled : handled[i] = StepFor(batch[i])
    /\ pc \in {"top", "exit", "done"} => Len(handled) = Len(batch)
    /\ pc = "wait" => (batch = <<>> /\ handled = <<>>)

\* C13 witness: a batch in which a connection socket and, after it, the
\* listening socket were ready has been dispatched completely.
C13_Witness ==
    /\ pc = "top"
    /\ Len(batch) = 2
    /\ batch[1].tag = 1
    /\ batch[2].tag = 0
    /\ handled = <<StepFor(batch[1]), StepFor(batch[2])>>
    /\ num_connected_clients = 2

IsData(seg) == seg.kind = "data"

\* The data blocks among the writes w, as <<offset, length>> pairs.
DataBlocks(w) ==
    LET d == SelectSeq(w, IsData)
    IN  [i \in DOMAIN d |-> <<d[i].off, d[i].n>>]

\* C14: one writability event of a connection in SendingData at offset o
\* reads min(1024, S - o) bytes at o and writes those bytes once; a full
\* write advances the offset by that amount and nothing else does; so a
\* step sends at most one block, a block that is not the last one of the
\* file has 1024 bytes, and a completed transfer of a 2500-byte file is made
\* of the blocks 1024, 1024 and 452.
C14_OneBlockPerEvent ==
    /\ [][ /\ WritableStepOn(SEND_DATA_BLOCK)
              => LET k == last_step'.slot
                     o == conns[k].src_file_offset
                     n == Min(TRANSFER_BLOCK_SIZE, src_file_size - o)
                     r == last_step'.r
                     w == last_step'.w
                 IN  /\ r.ret \in {n, -1}
                     /\ w.ret \in -1 .. n
                     /\ wire'[k] = wire[k] \o (IF r.ret = n /\ w.ret > 0
                                               THEN DataSegment(o, w.ret)
                                               ELSE NoSegment)
                     /\ conns'[k].src_file_offset =
                           (IF r.ret = n /\ w.ret = n THEN o + n ELSE o)
           /\ \A k \in Slots :
                 /\ Len(wire'[k]) <= Len(wire[k]) + 1
                 /\ Len(wire'[k]) > Len(wire[k])
                       => /\ last_step'.op = "writable"
                          /\ last_step'.slot = k
                          /\ SubSeq(wire'[k], 1, Len(wire[k])) = wire[k] ]_vars
    /\ [](\A k \in Slots :
            /\ \A i \in DOMAIN wire[k] :
                  wire[k][i].kind = "data"
                  => /\ wire[k][i].n <= TRANSFER_BLOCK_SIZE
                     /\ wire[k][i].off + wire[k][i].n <= src_file_size
                     /\ (wire[k][i].off + wire[k][i].n < conns[k].src_file_offset
                           => wire[k][i].n = TRANSFER_BLOCK_SIZE)
            /\ (conns[k].state = TRANSFER_FINISHED /\ k \notin io_error
                  /\ conns[k].src_file_offset = src_file_size
                  /\ src_file_size = 2500)
               => DataBlocks(wire[k])
                     = <<<<0, 1024>>, <<1024, 1024>>, <<2048, 452>>>>)

\* C14 witness: a connection has completed the transfer of a 2500-byte file
\* while another connection is still in the middle of it.
C14_Witness ==
    /\ src_file_size = 2500
    /\ \E k \in Slots :
          /\ conns[k].state = TRANSFER_FINISHED
          /\ conns[k].src_file_offset = src_file_size
          /\ k \notin io_error
          /\ Len(DataBlocks(wire[k])) = 3
    /\ \E j \in Slots : conns[j].state = SEND_DATA_BLOCK
                        /\ conns[j].src_file_offset = 1024

\* The changes of a slot's state that the protocol allows.
AllowedTransitions ==
    {<<CONNECTION_EMPTY, SEND_FILE_SIZE>>, <<SEND_FILE_SIZE, SEND_DATA_BLOCK>>,
     <<SEND_FILE_SIZE, TRANSFER_FINISHED>>, <<SEND_DATA_BLOCK, TRANSFER_FINISHED>>}

\* C15: a slot's state changes only along Idle -> SendingSize (by an
\* admission into that slot), SendingSize -> SendingData (by a write that
\* took all 8 bytes of the length), SendingSize -> Finished and
\* SendingData -> Finished; a Finished slot never changes again and no send
\* step is executed on it.
C15_StateMachine ==
    /\ [][ \A k \in Slots :
             /\ conns'[k].state # conns[k].state
                   => <<conns[k].state, conns'[k].state>> \in AllowedTransitions
             /\ (conns[k].state = CONNECTION_EMPTY /\ conns'[k].state # CONNECTION_EMPTY)
                   => (last_step'.op = "accept" /\ last_step'.slot = k)
             /\ (conns[k].state # SEND_DATA_BLOCK /\ conns'[k].state = SEND_DATA_BLOCK)
                   => /\ last_step'.op = "writable" /\ last_step'.slot = k
                      /\ wire'[k] # <<>>
                      /\ wire'[k][Len(wire'[k])] = SizeSegment(SIZEOF_FILE_SIZE)[1]
                      /\ conns'[k].src_file_offset = 0
             /\ conns[k].state = TRANSFER_FINISHED
                   => /\ conns'[k] = conns[k]
                      /\ wire'[k] = wire[k]
                      /\ ~(last_step'.op = "writable" /\ last_step'.slot = k) ]_vars
    /\ [](\A k \in Slots :
            /\ conns[k].state = SEND_DATA_BLOCK
                  => \E i \in DOMAIN wire[k] :
                        wire[k][i] = SizeSegment(SIZEOF_FILE_SIZE)[1]
            /\ conns[k].state \in {CONNECTION_EMPTY, SEND_FILE_SIZE}
                  => \A i \in DOMAIN wire[k] : wire[k][i].kind = "size")

\* C15 witness: one slot went from SendingSize straight to Finished and
\* another one through SendingData to Finished.
C15_Witness ==
    \E k, j \in Slots :
        /\ conns[k].state = TRANSFER_FINISHED
        /\ wire[k] = <<>>
        /\ conns[j].state = TRANSFER_FINISHED
        /\ Len(DataBlocks(wire[j])) = 3

\* The socket of slot k is one that the wait call about to be made watches:
\* it is in the epoll interest list under tag 1 + k, or pollfds[1 + k] is
\* among the entries passed to poll() and holds an open descriptor.
WatchedAtWait(k) ==
    IF variant = "epoll"
    THEN \E e \in epoll_set : e.tag = 1 + k /\ e.fd \in open_fds
    ELSE /\ k < num_connected_clients
         /\ pollfds[1 + k].fd \in open_fds
         /\ "OUT" \in pollfds[1 + k].events

\* The listening socket is one that the wait call about to be made watches.
ListenWatchedAtWait ==
    IF variant = "epoll"
    THEN \E e \in epoll_set : e.tag = 0 /\ e.fd = ListenSockFd(variant)
    ELSE pollfds[0].fd = ListenSockFd(variant) /\ "IN" \in pollfds[0].events

\* C16 (as claimed): at every wait call the listening socket is registered
\* exactly if accept_new_connections was computed true in this iteration,
\* and the socket of slot k is registered exactly if slot k is in
\* SendingSize or SendingData.
C16_Original ==
    pc = "wait"
    => /\ ListenWatchedAtWait <=> accept_new_connections
       /\ \A k \in Slots : WatchedAtWait(k) <=> Live(k)

\* The accepted sockets that are open: every open descriptor other than the
\* standard streams and those that main() opened before the loop.
ClientSockets ==
    open_fds \ ({0, 1, 2, SrcFileFd(variant), ListenSockFd(variant)}
                \cup (IF variant = "epoll" THEN {EPOLL_FD} ELSE {}))

\* C17 (as claimed): while the loop runs, a slot holds an open accepted
\* socket of its own exactly if it is in SendingSize or SendingData, and a
\* slot is moved out of Idle only with a socket that accept() returned
\* successfully.
C17_Original ==
    /\ [][ \A k \in Slots :
             (conns[k].state = CONNECTION_EMPTY /\ conns'[k].state # CONNECTION_EMPTY
              /\ pc' # "fatal")
             => /\ last_step'.op = "accept"
                /\ last_step'.ok
                /\ conns'[k].client_sock_fd \in ClientSockets' ]_vars
    /\ [](pc \in {"top", "wait", "events", "poll_listen", "poll_conns"}
            => /\ \A k \in Slots : Live(k) => conns[k].client_sock_fd \in ClientSockets
               /\ \A k, j \in Slots :
                     (Live(k) /\ Live(j) /\ k # j)
                     => conns[k].client_sock_fd # conns[j].client_sock_fd
               /\ Cardinality(ClientSockets)
                     = Cardinality({k \in Slots : Live(k)}))

\* C18: an admission always uses the slot with index num_connected_clients,
\* which exists and is Idle, and changes no other slot; the socket handle of
\* a slot that has been used is never replaced; and with <num-clients> 1
\* there is no second admission, so none before the first connection is
\* Finished.
C18_SlotsStable ==
    /\ [][ /\ last_step'.op = "accept"
              => LET k == last_step'.slot
                 IN  /\ k = num_connected_clients
                     /\ k \in Slots
                     /\ conns[k].state = CONNECTION_EMPTY
                     /\ \A j \in Slots \ {k} : conns'[j] = conns[j]
                     /\ max_conns = 1 => \A j \in Slots : ~Live(j)
           /\ \A j \in Slots :
                 conns[j].state # CONNECTION_EMPTY
                 => conns'[j].client_sock_fd = conns[j].client_sock_fd
           /\ num_connected_clients' # num_connected_clients
                 => /\ last_step'.op = "accept"
                    /\ num_connected_clients' = num_connected_clients + 1 ]_vars
    /\ [](pc # "fatal"
            => \A k \in Slots :
                  (conns[k].state # CONNECTION_EMPTY) <=> (k < num_connected_clients))

\* C18 witness: a second client has just been admitted into slot 1 after the
\* first one, in slot 0, had finished and been closed.
C18_Witness ==
    /\ max_conns = 2
    /\ last_step.op = "accept"
    /\ last_step.ok
    /\ last_step.slot = 1
    /\ conns[0].state = TRANSFER_FINISHED
    /\ conns[1].state = SEND_FILE_SIZE
    /\ conns[1].client_sock_fd = conns[0].client_sock_fd

(***************************************************************************)
(* The two event loops side by side.  Both servers are observed at their   *)
(* wait call; one step hands both the same batch of ready descriptors,     *)
(* the same results of accept(), pread() and write(), and the same moment  *)
(* of SIGINT, and runs each server's loop body up to its next wait call    *)
(* or its exit.                                                            *)
(***************************************************************************)
\* After the loop: server_close_listen_socket, server_close_src_file,
\* close(epollfd) in the epoll server, return EXIT_SUCCESS.
LeaveMainOf(side, v) ==
    LET closing == {ListenSockFd(v), SrcFileFd(v)}
                   \cup (IF v = "epoll" THEN {EPOLL_FD} ELSE {})
    IN  IF {ListenSockFd(v), SrcFileFd(v)} \subseteq side.s.open_fds
        THEN [side EXCEPT !.s.open_fds = @ \ closing,
                          !.s.epoll_set = {},
                          !.s.nonblock = @ \ closing,
                          !.status = "EXIT_SUCCESS"]
        ELSE [side EXCEPT !.status = "EXIT_FAILURE"]

\* Top of while (true) in the epoll server, up to the call of epoll_wait().
EpollTop(side, in_shutdown) ==
    LET accept_new == AcceptNew(side.s.connected, in_shutdown)
        listen_fd == ListenSockFd("epoll")
    IN  IF side.s.fatal THEN [side EXCEPT !.status = "EXIT_FAILURE"]
        ELSE IF side.s.active = 0 /\ ~accept_new
        THEN LeaveMainOf(side, "epoll")
        ELSE IF AcceptStopsNow(side.prev, accept_new)
        THEN IF Registered(side.s, listen_fd)
             THEN [side EXCEPT !.prev = FALSE,
                               !.s.epoll_set = {e \in @ : e.fd # listen_fd}]
             ELSE [side EXCEPT !.prev = FALSE, !.status = "EXIT_FAILURE"]
        ELSE side

\* Top of while (true) in the poll server, up to the call of poll().
PollTop(side, in_shutdown) ==
    LET accept_new == AcceptNew(side.s.connected, in_shutdown)
    IN  IF side.s.fatal THEN [side EXCEPT !.status = "EXIT_FAILURE"]
        ELSE IF side.s.active = 0 /\ ~accept_new
        THEN LeaveMainOf(side, "poll")
        ELSE IF \E k \in Slots : k < side.s.connected
                                 /\ side.s.conns[k].state = CONNECTION_EMPTY
        THEN [side EXCEPT !.status = "EXIT_FAILURE"]
        ELSE [side EXCEPT !.listen = accept_new]

\* The descriptors each server waits on, named by the tag of the epoll
\* event: 0 for the listening socket, 1 + conn_i for a connection.
EpollTags(side) == {e.tag : e \in side.s.epoll_set}
PollTags(side) ==
    (IF side.listen THEN {0} ELSE {})
    \cup {1 + k : k \in {j \in Slots :
                           /\ j < side.s.connected
                           /\ side.s.conns[j].state \in {SEND_FILE_SIZE,
                                                         SEND_DATA_BLOCK}
                           /\ side.s.conns[j].client_sock_fd >= 0}}

\* The body of for (event_i ...) in the epoll server for one event.
EpollHandle(s, tag, flags, ios, a, in_shutdown) ==
    IF s.fatal THEN s
    ELSE IF tag = 0 THEN AcceptStep(s, "epoll", a, in_shutdown)
    ELSE IF EventBranch(flags) = "hangup" THEN HangupStep(s, "epoll", tag - 1)
    ELSE IF EventBranch(flags) = "writable"
    THEN WritableStep(s, "epoll", tag - 1, src_file_size, ios[tag - 1])
    ELSE s

\* for (event_i = i; event_i < numevents; ++event_i) in the epoll server.
RECURSIVE EpollEvents(_, _, _, _, _, _, _)
EpollEvents(s, order, ev, ios, a, in_shutdown, i) ==
    IF i > Len(order) THEN s
    ELSE EpollEvents(EpollHandle(s, order[i], ev[order[i]], ios, a, in_shutdown),
                     order, ev, ios, a, in_shutdown, i + 1)

\* for (conn_i = i; conn_i < num_connected_clients; ++conn_i) after poll().
\* The revents of a slot admitted in this round are those of an entry that
\* poll() has not written: none.
RECURSIVE PollConns(_, _, _, _)
PollConns(s, ev, ios, i) ==
    IF s.fatal \/ i >= s.connected THEN s
    ELSE LET flags == IF 1 + i \in DOMAIN ev THEN ev[1 + i] ELSE {}
             s1 == IF EventBranch(flags) = "hangup" THEN HangupStep(s, "poll", i)
                   ELSE IF EventBranch(flags) = "writable"
                   THEN WritableStep(s, "poll", i, src_file_size, ios[i])
                   ELSE s
         IN  PollConns(s1, ev, ios, i + 1)

\* The code after poll() in the poll server: the listening socket first,
\* then the connections in the order of their slots.
PollEvents(s, ev, ios, a, in_shutdown) ==
    LET s1 == IF 0 \in DOMAIN ev /\ "IN" \in ev[0]
              THEN AcceptStep(s, "poll", a, in_shutdown) ELSE s
    IN  PollConns(s1, ev, ios, 0)

\* Both servers in front of their first wait call.
PairStart(v) ==
    [s |-> [conns |-> [k \in Slots |-> EmptyConn], active |-> 0,
            connected |-> 0, errno |-> ENONE,
            open_fds |-> IF v = "epoll"
                         THEN {0, 1, 2, EPOLL_FD, SrcFileFd(v), ListenSockFd(v)}
                         ELSE {0, 1, 2, SrcFileFd(v), ListenSockFd(v)},
            epoll_set |-> IF v = "epoll"
                          THEN {[fd |-> ListenSockFd(v), tag |-> 0]} ELSE {},
            nonblock |-> {ListenSockFd(v)},
            wire |-> [k \in Slots |-> <<>>], io_error |-> {},
            seen_offsets |-> [k \in Slots |-> <<>>], calls |-> <<>>,
            fatal |-> FALSE],
     prev |-> TRUE, listen |-> TRUE, status |-> "wait"]

PairInit ==
    /\ variant = "pair"
    /\ max_conns \in MaxConnsArgs
    /\ src_file_size \in ServedFileSizes
    /\ SrvStopped
    /\ RtOff
    /\ SeqOff
    /\ ThrOff
    /\ LabOff
    /\ pair_pc = "on"
    /\ pair_epoll = EpollTop(PairStart("epoll"), FALSE)
    /\ pair_poll = PollTop(PairStart("poll"), FALSE)
    /\ pair_sigint = FALSE

\* When SIGINT arrives, relative to the wait call and the loop body that
\* follows it.
SigintMoments == {"none", "in_wait", "before_dispatch", "before_top"}

\* The slots whose event of this batch leads to a send step.
SendSlots(ev) ==
    {t - 1 : t \in {u \in DOMAIN ev : u # 0 /\ EventBranch(ev[u]) = "writable"}}

\* One round of both servers on the same inputs.
PairBatch ==
    /\ pair_pc = "on"
    /\ pair_epoll.status = "wait"
    /\ pair_poll.status = "wait"
    /\ \E moment \in (IF pair_sigint THEN {"none"} ELSE SigintMoments) :
         /\ pair_sigint' = (pair_sigint \/ moment # "none")
         /\ IF moment = "in_wait"
            THEN \* epoll_wait() and poll() return -1 with EINTR
                 /\ pair_epoll' = [pair_epoll EXCEPT !.s.errno = "EINTR",
                                                     !.status = "EXIT_FAILURE"]
                 /\ pair_poll' = [pair_poll EXCEPT !.s.errno = "EINTR",
                                                   !.status = "EXIT_FAILURE"]
            ELSE \E T \in (SUBSET (EpollTags(pair_epoll) \cap PollTags(pair_poll)))
                          \ {{}} :
                 \E ev \in [T -> ConnReadiness \cup {{"IN"}}] :
                 \E order \in [1 .. Cardinality(T) -> T] :
                 \E a \in AcceptOutcomes :
                 \E ios \in [SendSlots(ev) ->
                               UNION {IoChoices(pair_epoll.s, k, src_file_size) :
                                        k \in SendSlots(ev)}] :
                   /\ \A t \in T : ev[t] \in ReadinessOf(t)
                   /\ \A i, j \in DOMAIN order : i # j => order[i] # order[j]
                   /\ \A k \in SendSlots(ev) :
                        /\ ios[k] \in IoChoices(pair_epoll.s, k, src_file_size)
                        /\ ios[k] \in IoChoices(pair_poll.s, k, src_file_size)
                   /\ LET at_dispatch == pair_sigint \/ moment = "before_dispatch"
                          at_top == pair_sigint'
                      IN  /\ pair_epoll' =
                               EpollTop([pair_epoll EXCEPT !.s =
                                           EpollEvents(@, order, ev, ios, a,
                                                       at_dispatch, 1)],
                                        at_top)
                          /\ pair_poll' =
                               PollTop([pair_poll EXCEPT !.s =
                                          PollEvents(@, ev, ios, a, at_dispatch)],
                                       at_top)
    /\ UNCHANGED <<srv_vars, rt_vars, seq_vars, thr_vars, lab_vars, pair_pc>>

PairNext == PairBatch

SpecPair == PairInit /\ [][PairNext]_vars

\* What the protocol shows of one server: the exit status, the two counts,
\* each slot's state and offset, and what was sent on each connection.
ProtocolView(side) ==
    [status |-> side.status,
     connected |-> side.s.connected,
     active |-> side.s.active,
     slots |-> [k \in Slots |-> [state |-> side.s.conns[k].state,
                                 offset |-> side.s.conns[k].src_file_offset]],
     wire |-> side.s.wire]

\* C19: driven by the same arrivals, readiness and hangup events, the same
\* results of accept(), pread() and write() and the same moments of SIGINT,
\* the epoll server and the poll server show the same slot states and
\* offsets, the same bytes on each connection, the same admitted and active
\* counts at each wait call, and the same exit status.
C19_Original ==
    pair_pc = "on" => ProtocolView(pair_epoll) = ProtocolView(pair_poll)

(***************************************************************************)
(* Deregistration and close of client sockets.                             *)
(***************************************************************************)
\* The call with index i of the history is made on a socket that accept()
\* returned at index j and on which no call of the same kind was made since.
FirstSince(i, j) ==
    /\ j < i
    /\ calls[j].call = "accept"
    /\ calls[j].ok
    /\ calls[j].fd = calls[i].fd
    /\ \A m \in (j + 1) .. (i - 1) :
          ~(calls[m].fd = calls[i].fd /\ calls[m].call \in {calls[i].call, "accept"})

\* C20: every epoll_ctl(EPOLL_CTL_DEL) and every close() the loop makes on a
\* client socket succeeds and is the first such call on that socket since
\* accept() returned it; a step that deregisters or closes acts on a slot
\* that is not Finished; in the epoll server a close() directly follows the
\* deregistration of the same socket; and when main() returns EXIT_SUCCESS
\* every socket that accept() returned has been closed.
C20_ClosedOnce ==
    /\ [](\A i \in DOMAIN calls :
             /\ calls[i].call \in {"DEL", "close"}
                => /\ calls[i].ok
                   /\ \E j \in DOMAIN calls : FirstSince(i, j)
             /\ (variant = "epoll" /\ calls[i].call = "close")
                => /\ i > 1
                   /\ calls[i - 1] = [call |-> "DEL", fd |-> calls[i].fd, ok |-> TRUE])
    /\ [](pc = "done"
            => \A j \in DOMAIN calls :
                  (calls[j].call = "accept" /\ calls[j].ok)
                  => \E i \in DOMAIN calls :
                        /\ calls[i].call = "close"
                        /\ FirstSince(i, j))
    /\ [][ (Len(calls') > Len(calls)
            /\ calls'[Len(calls')].call \in {"DEL", "close"})
           => /\ last_step'.op \in {"hangup", "writable"}
              /\ conns[last_step'.slot].state \in {SEND_FILE_SIZE, SEND_DATA_BLOCK}
              /\ conns[last_step'.slot].client_sock_fd = calls'[Len(calls')].fd
              /\ conns'[last_step'.slot].state = TRANSFER_FINISHED ]_vars

\* C20 witness: the epoll server has returned EXIT_SUCCESS after serving two
\* clients whose sockets had the same descriptor number, each deregistered
\* and closed.
C20_Witness ==
    /\ variant = "epoll"
    /\ pc = "done"
    /\ Len(calls) = 8
    /\ calls[1].call = "accept"
    /\ calls[5].call = "accept"
    /\ calls[5].fd = calls[1].fd
    /\ calls[8].call = "close"

(***************************************************************************)
(* The listening socket in the interest list of the epoll server.          *)
(***************************************************************************)
ListenRegistered == \E e \in epoll_set : e.tag = 0

\* C21: in the epoll server the listening socket is taken off the interest
\* list only by the loop top, in the first round in which
\* accept_new_connections is false and the loop goes on to wait; that
\* happens at most once, the call never fails, the socket is on the list at
\* every wait call before it, and it is never put back.
C21_ListenWithdrawnOnce ==
    /\ [][ variant = "epoll" =>
             /\ (ListenRegistered /\ ~ListenRegistered' /\ pc' # "done")
                => /\ pc = "top" /\ pc' = "wait"
                   /\ accept_new_connections_prev
                   /\ ~accept_new_connections_prev'
                   /\ ~AcceptNew(num_connected_clients, received_sigint)
             /\ (pc = "top" /\ pc' = "wait"
                 /\ ~AcceptNew(num_connected_clients, received_sigint))
                => ~ListenRegistered' /\ ~accept_new_connections_prev'
             /\ (pc = "top" /\ pc' = "wait"
                 /\ AcceptNew(num_connected_clients, received_sigint))
                => ListenRegistered' /\ accept_new_connections_prev'
             /\ ~ListenRegistered => ~ListenRegistered'
             /\ ~accept_new_connections_prev => ~accept_new_connections_prev'
             /\ pc = "top" => pc' # "fatal" ]_vars
    /\ []((variant = "epoll" /\ pc \notin {"done", "fatal"})
            => (ListenRegistered <=> accept_new_connections_prev))

\* C21 witness: the epoll server waits for its one remaining client with the
\* listening socket withdrawn because SIGINT has been received.
C21_Witness ==
    /\ variant = "epoll"
    /\ pc = "wait"
    /\ received_sigint
    /\ num_connected_clients < max_conns
    /\ num_active_clients = 1
    /\ ~ListenRegistered
    /\ ~accept_new_connections_prev
    /\ epoll_set # {}

\* The step being taken handles a readiness event of the listening socket.
AcceptStepTaken == last_step'.op = "accept" /\ handled' # handled

\* What an admission does to the table when it uses slot k.
AdmittedInto(k) ==
    /\ k = num_connected_clients
    /\ conns'[k].state = SEND_FILE_SIZE
    /\ conns'[k].src_file_offset = 0
    /\ conns'[k].client_sock_fd \in open_fds'
    /\ ArmedAfter(k)
    /\ num_connected_clients' = num_connected_clients + 1
    /\ num_active_clients' = num_active_clients + 1

\* C22: every readiness event of the listening socket admits one connection
\* into the slot with index num_connected_clients: the slot becomes
\* SendingSize at offset 0, its socket is armed under tag slot + 1, both
\* counters grow by one; tags in the interest list are unique; and no batch
\* admits more than one connection.
C22_Original ==
    /\ [][AcceptStepTaken => AdmittedInto(last_step'.slot)]_vars
    /\ [](\A e1, e2 \in epoll_set : e1.tag = e2.tag => e1 = e2)
    /\ [](Cardinality({i \in DOMAIN handled : handled[i].op = "accept"}) <= 1)

\* The step being taken is the hangup branch for slot k.
HangupStepTaken(k) ==
    /\ last_step'.op = "hangup"
    /\ last_step'.slot = k
    /\ handled' # handled

\* The readiness flags that the current batch holds for tag t.
BatchFlags(t) == UNION {batch[j].events : j \in {i \in DOMAIN batch : batch[i].tag = t}}

\* C23: an event with the hangup flag for a connection takes the hangup
\* branch, with or without the writability flag: the socket is deregistered
\* and closed, the slot becomes Finished, num_active_clients drops by one,
\* nothing is read or sent for the slot; and a Finished slot is in no later
\* batch.
C23_HangupClosesOnce ==
    /\ [](\A i \in DOMAIN handled :
             (handled[i].tag # 0 /\ "HUP" \in BatchFlags(handled[i].tag))
             => handled[i].op = "hangup")
    /\ [][\A k \in Slots :
            HangupStepTaken(k)
            => /\ Live(k)
               /\ "HUP" \in BatchFlags(1 + k)
               /\ pc' # "fatal"
               /\ conns'[k].state = TRANSFER_FINISHED
               /\ conns'[k].src_file_offset = conns[k].src_file_offset
               /\ conns[k].client_sock_fd \in open_fds
               /\ conns[k].client_sock_fd \notin open_fds'
               /\ ~ArmedAfter(k)
               /\ num_active_clients > 0
               /\ num_active_clients' = num_active_clients - 1
               /\ num_connected_clients' = num_connected_clients
               /\ wire'[k] = wire[k]
               /\ seen_offsets'[k] = seen_offsets[k]]_vars
    /\ [][batch' # batch
          => \A j \in DOMAIN batch' :
                batch'[j].tag # 0
                => conns[batch'[j].tag - 1].state
                     \in {SEND_FILE_SIZE, SEND_DATA_BLOCK}]_vars

\* C23 witness: slot 0, in the middle of its transfer, has just been closed
\* by an event that carried both the hangup and the writability flag, while
\* slot 1 is still being served.
C23_Witness ==
    /\ max_conns = 2
    /\ last_step.op = "hangup"
    /\ last_step.slot = 0
    /\ BatchFlags(1) = {"OUT", "HUP"}
    /\ conns[0].state = TRANSFER_FINISHED
    /\ conns[0].src_file_offset = TRANSFER_BLOCK_SIZE
    /\ Len(wire[0]) = 2
    /\ conns[1].state = SEND_DATA_BLOCK
    /\ num_active_clients = 1

\* The step being taken is a send step for slot k in SendingData whose
\* write() took every byte of the block that pread() delivered and brought
\* the offset to the size of the file.
LastBlockSentOn(k) ==
    /\ WritableStepOn(SEND_DATA_BLOCK)
    /\ handled' # handled
    /\ last_step'.slot = k
    /\ last_step'.r.ret > 0
    /\ last_step'.w.ret = last_step'.r.ret
    /\ conns[k].src_file_offset + last_step'.w.ret = src_file_size

\* C24 as stated: the step that brings the offset to the file size leaves
\* the connection in SendingData and registered, for a later event to finish.
C24_Original ==
    [][\A k \in Slots :
         LastBlockSentOn(k)
         => /\ conns'[k].state = SEND_DATA_BLOCK
            /\ ArmedAfter(k)]_vars

\* C24 amended: the step that brings the offset to the file size finishes
\* the connection itself: the slot becomes Finished at offset = file size,
\* its socket is deregistered and closed, num_active_clients drops by one,
\* the process goes on; a Finished slot is never armed.
C24_FinishedInSameStep ==
    /\ [][\A k \in Slots :
            LastBlockSentOn(k)
            => /\ conns'[k].state = TRANSFER_FINISHED
               /\ conns'[k].src_file_offset = src_file_size
               /\ conns[k].client_sock_fd \in open_fds
               /\ conns[k].client_sock_fd \notin open_fds'
               /\ ~ArmedAfter(k)
               /\ num_active_clients' = num_active_clients - 1
               /\ pc' # "fatal"]_vars
    /\ [](\A k \in Slots : conns[k].state = TRANSFER_FINISHED => ~Armed(k))

\* C24 witness: slot 0 has just been finished by the step that sent the last,
\* partial block of a 2500-byte file.
C24_Witness ==
    /\ src_file_size = 2500
    /\ last_step.op = "writable"
    /\ last_step.slot = 0
    /\ last_step.w.ret = 2500 - 2 * TRANSFER_BLOCK_SIZE
    /\ conns[0].state = TRANSFER_FINISHED
    /\ conns[0].src_file_offset = src_file_size
    /\ 0 \notin io_error
    /\ conns[0].client_sock_fd \notin open_fds

\* The slots that the step being taken moves from one set of states into
\* another.
Moved(from, to) ==
    {k \in Slots : conns[k].state \in from /\ conns'[k].state \in to}

LiveStates == {SEND_FILE_SIZE, SEND_DATA_BLOCK}

\* C25: at every loop-top check and at every wait call num_active_clients
\* is the number of slots in SendingSize or SendingData and
\* num_connected_clients is the number of slots that are not Idle; the
\* active count grows by one exactly in the step that takes a slot out of
\* Idle and drops by one exactly in the step that makes a slot Finished, one
\* slot per step, and no slot leaves Finished or returns to Idle.
C25_CountsMatchTable ==
    /\ [](pc \in {"top", "wait"}
            => /\ num_active_clients
                    = Cardinality({k \in Slots : conns[k].state \in LiveStates})
               /\ num_connected_clients
                    = Cardinality({k \in Slots : conns[k].state # CONNECTION_EMPTY}))
    /\ [][pc' # "fatal"
          => LET in == Moved({CONNECTION_EMPTY}, LiveStates)
                 out == Moved(LiveStates, {TRANSFER_FINISHED})
             IN  /\ Cardinality(in) + Cardinality(out) <= 1
                 /\ num_active_clients' + Cardinality(out)
                       = num_active_clients + Cardinality(in)
                 /\ num_connected_clients'
                       = num_connected_clients + Cardinality(in)
                 /\ Moved({TRANSFER_FINISHED},
                          {CONNECTION_EMPTY, SEND_FILE_SIZE, SEND_DATA_BLOCK}) = {}
                 /\ Moved(LiveStates, {CONNECTION_EMPTY}) = {}
                 /\ Moved({CONNECTION_EMPTY}, {SEND_DATA_BLOCK, TRANSFER_FINISHED})
                       = {}]_vars
    /\ [](pc = "done"
            => /\ num_active_clients = 0
               /\ \A k \in Slots :
                     conns[k].state \in {CONNECTION_EMPTY, TRANSFER_FINISHED})

\* C25 witness: at a wait call, of two admitted connections one has been
\* finished and counted out and the other is still counted as active.
C25_Witness ==
    /\ pc = "wait"
    /\ num_connected_clients = 2
    /\ num_active_clients = 1
    /\ conns[0].state = TRANSFER_FINISHED
    /\ conns[1].state = SEND_DATA_BLOCK
    /\ conns[1].src_file_offset = TRANSFER_BLOCK_SIZE

\* C26: the "Unexpected state!" exits are never taken: the poll server's
\* loop top never finds an Idle slot among the admitted ones, no send step
\* is dispatched to an Idle slot, and every connection tag that a wait call
\* delivers, and every armed slot, belongs to a slot that has been admitted
\* and is not Idle.
C26_NoUnexpectedState ==
    /\ [][ /\ (variant = "poll" /\ pc = "top") => pc' # "fatal"
           /\ (last_step'.op = "writable" /\ handled' # handled)
              => /\ last_step'.slot \in Slots
                 /\ conns[last_step'.slot].state # CONNECTION_EMPTY ]_vars
    /\ [](\A j \in DOMAIN batch :
             batch[j].tag # 0
             => /\ batch[j].tag - 1 \in Slots
                /\ batch[j].tag - 1 < num_connected_clients
                /\ conns[batch[j].tag - 1].state # CONNECTION_EMPTY)
    /\ [](pc # "fatal"
            => \A k \in Slots :
                  (Armed(k) \/ k < num_connected_clients)
                  => conns[k].state # CONNECTION_EMPTY)

\* C26 witness: a send step has been dispatched to slot 1, the last slot of
\* the table, right after slot 0 was served in the same batch.
C26_Witness ==
    /\ max_conns = 2
    /\ Len(batch) = 2
    /\ Len(handled) = 2
    /\ handled[1] = [tag |-> 1, op |-> "writable"]
    /\ handled[2] = [tag |-> 2, op |-> "writable"]
    /\ last_step.op = "writable"
    /\ last_step.slot = 1
    /\ conns[1].state = SEND_DATA_BLOCK
    /\ exit_status = "running"

\* C27: every index stays inside its array.  conns has max_conns elements,
\* pollfds and events have max_conns + 1.  The listening socket is watched
\* only while a slot is free, so an admission uses an index below max_conns;
\* a connection tag names a slot below num_connected_clients; poll() is
\* given 1 + num_connected_clients <= max_conns + 1 entries and the loop
\* after it reads only those; an epoll batch has at most max_conns + 1
\* events and the dispatch loop stays inside it.
C27_IndicesInBounds ==
    /\ []((pc = "wait" /\ ListenArmedIn(variant, epoll_set, pollfds))
            => num_connected_clients < max_conns)
    /\ [](num_connected_clients <= max_conns)
    /\ [][AcceptStepTaken
          => /\ last_step'.slot = num_connected_clients
             /\ last_step'.slot < max_conns
             /\ last_step'.slot \in DOMAIN conns]_vars
    /\ [](\A j \in DOMAIN batch :
             batch[j].tag # 0
             => /\ batch[j].tag - 1 >= 0
                /\ batch[j].tag - 1 < num_connected_clients)
    /\ [](variant = "poll"
            => /\ DOMAIN pollfds = 0 .. max_conns
               /\ 1 + num_connected_clients <= Cardinality(DOMAIN pollfds)
               /\ pc = "poll_conns" => 1 + loop_i \in DOMAIN pollfds)
    /\ [](variant = "epoll"
            => /\ Len(events) <= max_conns + 1
               /\ Cardinality(epoll_set) <= max_conns + 1
               /\ pc = "events" => loop_i + 1 \in DOMAIN events)

\* C27 witness: the poll server has admitted its last client while slot 0
\* was still being served and is about to look at the last entry of pollfds.
C27_Witness ==
    /\ variant = "poll"
    /\ max_conns = 2
    /\ pc = "poll_conns"
    /\ num_connected_clients = max_conns
    /\ loop_i = 1
    /\ 1 + loop_i = max_conns
    /\ handled # <<>>
    /\ handled[1].op = "accept"

(***************************************************************************)
(* The client against a server that may fail or close at any moment.       *)
(***************************************************************************)
\* How many connections the client makes, and how many recv() calls fail on
\* one connection.
MaxAttempts == 2
MaxRecvErrors == 1

ClientFileSizes == {0, 3, 9}

\* Contents of the file the server sends to the client.
ClientFiles ==
    {[i \in 1 .. n |-> PatternA(i)] : n \in ClientFileSizes}
    \cup {[i \in 1 .. n |-> PatternB(i)] : n \in ClientFileSizes}

\* A connection as the server holds it right after accept().
FreshConn == [client_sock_fd |-> 6, src_file_offset |-> 0, state |-> SEND_FILE_SIZE]

\* One writability event of the connection in which a system call fails or
\* the write is short.
RtServerFailStep ==
    /\ ~rt_closed
    /\ rt_conn.state \in {SEND_FILE_SIZE, SEND_DATA_BLOCK}
    /\ \E io \in IF rt_conn.state = SEND_FILE_SIZE
                 THEN {[r |-> NoCall, w |-> w] :
                         w \in {x \in WriteOutcomes(SIZEOF_FILE_SIZE) :
                                  x.ret # SIZEOF_FILE_SIZE}}
                 ELSE UNION {IF r.ret = -1
                             THEN {[r |-> r, w |-> NoCall]}
                             ELSE {[r |-> r, w |-> w] :
                                     w \in {x \in WriteOutcomes(r.ret) :
                                              x.ret # r.ret}}
                             : r \in ReadOutcomes(rt_conn.src_file_offset,
                                                  Len(rt_file))} :
         LET errno_now == ErrnoAfter(ErrnoAfter(ENONE, io.r.err), io.w.err)
             res == IF rt_conn.state = SEND_FILE_SIZE
                    THEN server_send_file_size(rt_conn, io.w, errno_now)
                    ELSE server_send_file_block(rt_conn, Len(rt_file), io.r, io.w)
         IN  /\ rt_conn' = res.conn
             /\ rt_stream' = rt_stream
                               \o WireBytes(res.sent, rt_file, rt_little_endian)
             /\ rt_closed' = ~res.success
    /\ UNCHANGED <<not_rt_vars, rt_pc, rt_little_endian, rt_file, rt_client, rt_dst,
                   rt_attempt, rt_received, rt_recv_errors>>

\* The hangup branch of the server's loop, or the end of the server process:
\* the connection is closed where it stands.
RtServerClose ==
    /\ ~rt_closed
    /\ rt_conn' = [rt_conn EXCEPT !.state = TRANSFER_FINISHED]
    /\ rt_closed' = TRUE
    /\ UNCHANGED <<not_rt_vars, rt_pc, rt_little_endian, rt_file, rt_stream,
                   rt_client, rt_dst, rt_attempt, rt_received, rt_recv_errors>>

\* client_recv_file_block when recv() returns -1: bytes_read is (size_t) -1,
\* which is not 0; pwrite() with that count fails and returns -1, which
\* equals bytes_read; dst_file_offset += (size_t) -1.
client_recv_file_block_failed ==
    /\ rt_pc = "recv_file_block"
    /\ rt_client.dst_file_offset # rt_client.dst_file_size
    /\ rt_recv_errors < MaxRecvErrors
    /\ rt_recv_errors' = rt_recv_errors + 1
    /\ rt_client' = [rt_client EXCEPT !.dst_file_offset = SizeDec(@)]
    /\ UNCHANGED <<not_rt_vars, rt_pc, rt_little_endian, rt_file, rt_conn,
                   rt_stream, rt_closed, rt_dst, rt_attempt, rt_received>>

\* client_close_socket(&client); goto start_connection;
client_close_socket ==
    /\ rt_pc = "reconnect"
    /\ rt_pc' = "start_connection"
    /\ rt_stream' = <<>>
    /\ UNCHANGED <<not_rt_vars, rt_little_endian, rt_file, rt_conn, rt_closed,
                   rt_client, rt_dst, rt_attempt, rt_received, rt_recv_errors>>

\* client_connect_to_server and the loop around it: connect() succeeds, is
\* refused (sleep and try again), or fails otherwise (exit).
client_connect_to_server ==
    /\ rt_pc = "start_connection"
    /\ \/ /\ rt_attempt < MaxAttempts
          /\ rt_attempt' = rt_attempt + 1
          /\ rt_conn' = FreshConn
          /\ rt_stream' = <<>>
          /\ rt_closed' = FALSE
          /\ rt_received' = 0
          /\ rt_recv_errors' = 0
          /\ rt_pc' = "recv_file_size"
       \/ /\ UNCHANGED <<rt_attempt, rt_conn, rt_stream, rt_closed, rt_received,
                         rt_recv_errors, rt_pc>>
       \/ /\ rt_pc' = "exit_failure_connect"
          /\ UNCHANGED <<rt_attempt, rt_conn, rt_stream, rt_closed, rt_received,
                         rt_recv_errors>>
    /\ UNCHANGED <<not_rt_vars, rt_little_endian, rt_file, rt_client, rt_dst>>

\* The client at start_connection for the first time.
ClientInit ==
    /\ rt_pc = "start_connection"
    /\ rt_little_endian \in BOOLEAN
    /\ rt_file \in ClientFiles
    /\ rt_conn = EmptyConn
    /\ rt_stream = <<>>
    /\ rt_closed = TRUE
    /\ rt_client = [dst_file_size |-> 0, dst_file_offset |-> 0]
    /\ rt_dst = <<>>
    /\ rt_attempt = 0
    /\ rt_received = 0
    /\ rt_recv_errors = 0
    /\ SrvOff
    /\ PairOff
    /\ SeqOff
    /\ ThrOff
    /\ LabOff

ClientNext ==
    \/ RtServerStep
    \/ RtServerFailStep
    \/ RtServerClose
    \/ client_connect_to_server
    \/ client_recv_file_size
    \/ client_open_dst_file
    \/ client_recv_file_block
    \/ client_recv_file_block_failed
    \/ client_close_socket

SpecClient == ClientInit /\ [][ClientNext]_vars

\* The server has closed the connection and every byte it sent has been
\* read, before as many bytes as announced have been written.
ClosedEarly ==
    /\ rt_pc = "recv_file_block"
    /\ rt_client.dst_file_offset # rt_client.dst_file_size
    /\ rt_stream = <<>>
    /\ rt_closed

\* C28: the client reaches "Received file" only with dst_file_offset ==
\* dst_file_size, the announced length being the length of the file and
\* exactly that many data bytes having been received on the connection; a
\* recv() that returns 0 before that leads to client_close_socket and back to
\* start_connection, and the connection made there starts again with the
\* length, offset 0 and a destination file emptied and allocated anew.
C28_ReceivedOnlyWhenComplete ==
    /\ [](rt_pc = "received_file" =>
            /\ rt_client.dst_file_offset = rt_client.dst_file_size
            /\ rt_client.dst_file_size = Len(rt_file)
            /\ rt_received = Len(rt_file)
            /\ rt_dst = rt_file)
    /\ [][(ClosedEarly /\ rt_recv_errors' = rt_recv_errors)
            => rt_pc' = "reconnect"]_vars
    /\ [][rt_pc = "reconnect"
            => rt_pc' = "start_connection" /\ rt_stream' = <<>>]_vars
    /\ [][(rt_pc = "start_connection" /\ rt_pc' = "recv_file_size")
            => /\ rt_conn' = FreshConn
               /\ rt_received' = 0
               /\ rt_attempt' = rt_attempt + 1]_vars
    /\ [][(rt_pc = "recv_file_size" /\ rt_pc' = "open_dst_file")
            => rt_client'.dst_file_offset = 0]_vars
    /\ [][(rt_pc = "open_dst_file" /\ rt_pc' = "recv_file_block")
            => rt_dst' = [i \in 1 .. rt_client.dst_file_size |-> 0]]_vars

\* The file has been received whole on the second connection, the first one
\* having been closed by the server before the end.
C28_Witness ==
    /\ rt_pc = "received_file"
    /\ rt_attempt = 2
    /\ Len(rt_file) = 9
    /\ rt_dst = rt_file
    /\ rt_client.dst_file_offset = 9

\* ---------------------------------------------------------------------
\* The sequential server: main() serves one client after the other over
\* blocking calls, with one FILESHARE_CONNECTION on its stack.

SeqNumClients == {1, 2}
SeqFileSizes == {0, 1500, 2500}

\* close(fd) in a process whose open descriptors are open_now.
SeqClose(open_now, fd) ==
    [ok |-> fd \in open_now, open_fds |-> open_now \ {fd}]

SeqCall(call, ok) == [call |-> call, client_i |-> seq_client_i, ok |-> ok]

\* main() after server_open_src_file, init_shutdown_control and
\* server_init_listen_socket: the standard streams, the source file and the
\* listening socket are open.
SeqInit ==
    /\ seq_pc = "for_test"
    /\ seq_num_clients \in SeqNumClients
    /\ seq_file_size \in SeqFileSizes
    /\ seq_client_i = 0
    /\ seq_conn = [client_sock_fd |-> -1, src_file_offset |-> 0]
    /\ seq_open_fds = 0 .. 4
    /\ seq_sigint = FALSE
    /\ seq_calls = <<>>
    /\ SrvOff
    /\ RtOff
    /\ PairOff
    /\ ThrOff
    /\ LabOff

\* sigint_handler
seq_sigint_handler ==
    /\ seq_pc \notin {"off", "exit_failure", "exit_success"}
    /\ ~seq_sigint
    /\ seq_sigint' = TRUE
    /\ UNCHANGED <<not_seq_vars, seq_pc, seq_num_clients,
                   seq_file_size, seq_client_i, seq_conn, seq_open_fds,
                   seq_calls>>

\* for (...; !program_in_shutdown() && client_i < num_clients; ...)
seq_for_test ==
    /\ seq_pc = "for_test"
    /\ seq_pc' = IF ~seq_sigint /\ seq_client_i < seq_num_clients
                 THEN "accept" ELSE "after_loop"
    /\ UNCHANGED <<not_seq_vars, seq_num_clients, seq_file_size,
                   seq_client_i, seq_conn, seq_open_fds, seq_sigint, seq_calls>>

\* server_accept_connection_request and the test of its result: a failed
\* accept() ends the loop during shutdown and the process otherwise.  The
\* signal may arrive while accept() is in progress.
seq_accept_connection_request ==
    /\ seq_pc = "accept"
    /\ \/ /\ seq_conn' = [seq_conn EXCEPT
                            !.client_sock_fd = LowestFreeFd(seq_open_fds)]
          /\ seq_open_fds' = seq_open_fds \cup {LowestFreeFd(seq_open_fds)}
          /\ seq_calls' = Append(seq_calls, SeqCall("accept", TRUE))
          /\ seq_pc' = "send_file_size"
          /\ UNCHANGED seq_sigint
       \/ \E arrives \in BOOLEAN :
            /\ seq_sigint' = (seq_sigint \/ arrives)
            /\ seq_conn' = [seq_conn EXCEPT !.client_sock_fd = -1]
            /\ seq_calls' = Append(seq_calls, SeqCall("accept", FALSE))
            /\ seq_pc' = IF seq_sigint' THEN "after_loop" ELSE "exit_failure"
            /\ UNCHANGED seq_open_fds
    /\ UNCHANGED <<not_seq_vars, seq_num_clients, seq_file_size,
                   seq_client_i>>

\* server_send_file_size and the test of its result:
\* if (!success) { server_close_conn_socket(&conn); continue; }
seq_send_file_size ==
    /\ seq_pc = "send_file_size"
    /\ \E w \in WriteOutcomes(SIZEOF_FILE_SIZE) :
         IF w.ret = SIZEOF_FILE_SIZE
         THEN /\ seq_conn' = [seq_conn EXCEPT !.src_file_offset = 0]
              /\ seq_calls' = Append(seq_calls, SeqCall("send_file_size", TRUE))
              /\ seq_pc' = "while_test"
              /\ UNCHANGED <<seq_open_fds, seq_client_i>>
         ELSE LET c == SeqClose(seq_open_fds, seq_conn.client_sock_fd)
              IN  /\ seq_calls' = seq_calls
                        \o <<SeqCall("send_file_size", FALSE),
                             SeqCall("close", c.ok)>>
                  /\ seq_open_fds' = c.open_fds
                  /\ seq_pc' = IF c.ok THEN "for_test" ELSE "exit_failure"
                  /\ seq_client_i' = IF c.ok THEN seq_client_i + 1
                                     ELSE seq_client_i
                  /\ UNCHANGED seq_conn
    /\ UNCHANGED <<not_seq_vars, seq_num_clients, seq_file_size,
                   seq_sigint>>

\* One evaluation of while (conn.src_file_offset < server.src_file_size)
\* and what follows it: server_send_file_block with
\* if (!success) { server_close_conn_socket(&conn); continue; }, where
\* continue belongs to the while loop, or the end of the loop with
\* server_close_conn_socket and ++client_i.
seq_send_file_block ==
    /\ seq_pc = "while_test"
    /\ IF seq_conn.src_file_offset < seq_file_size
       THEN LET bytes_read == Min(TRANSFER_BLOCK_SIZE,
                                  seq_file_size - seq_conn.src_file_offset)
                outcomes == IF seq_conn.client_sock_fd \in seq_open_fds
                            THEN WriteOutcomes(bytes_read)
                            ELSE {BadFdWrite}
            IN  \E w \in outcomes :
                  IF w.ret = bytes_read
                  THEN /\ seq_conn' = [seq_conn EXCEPT
                                         !.src_file_offset = @ + w.ret]
                       /\ seq_calls' =
                            Append(seq_calls, SeqCall("send_file_block", TRUE))
                       /\ UNCHANGED <<seq_pc, seq_open_fds, seq_client_i>>
                  ELSE LET c == SeqClose(seq_open_fds, seq_conn.client_sock_fd)
                       IN  /\ seq_calls' = seq_calls
                                 \o <<SeqCall("send_file_block", FALSE),
                                      SeqCall("close", c.ok)>>
                           /\ seq_open_fds' = c.open_fds
                           /\ seq_pc' = IF c.ok THEN "while_test"
                                        ELSE "exit_failure"
                           /\ UNCHANGED <<seq_conn, seq_client_i>>
       ELSE LET c == SeqClose(seq_open_fds, seq_conn.client_sock_fd)
            IN  /\ seq_calls' = Append(seq_calls, SeqCall("close", c.ok))
                /\ seq_open_fds' = c.open_fds
                /\ seq_pc' = IF c.ok THEN "for_test" ELSE "exit_failure"
                /\ seq_client_i' = IF c.ok THEN seq_client_i + 1
                                   ELSE seq_client_i
                /\ UNCHANGED seq_conn
    /\ UNCHANGED <<not_seq_vars, seq_num_clients, seq_file_size,
                   seq_sigint>>

\* server_close_listen_socket, server_close_src_file, "Transfer finished".
seq_transfer_finished ==
    /\ seq_pc = "after_loop"
    /\ seq_open_fds' = seq_open_fds \ {3, 4}
    /\ seq_pc' = "exit_success"
    /\ UNCHANGED <<not_seq_vars, seq_num_clients, seq_file_size,
                   seq_client_i, seq_conn, seq_sigint, seq_calls>>

SeqNext ==
    \/ seq_sigint_handler
    \/ seq_for_test
    \/ seq_accept_connection_request
    \/ seq_send_file_size
    \/ seq_send_file_block
    \/ seq_transfer_finished

SpecSeq == SeqInit /\ [][SeqNext]_vars

\* The calls of server_send_file_block that failed, by position.
FailedBlockSends ==
    {i \in DOMAIN seq_calls :
        seq_calls[i].call = "send_file_block" /\ ~seq_calls[i].ok}

\* C29: once server_send_file_block has failed for a client, the only later
\* call on that client's connection is the one close of its socket, the
\* process has not ended with a failure on that client's account, and the
\* loop counter has moved on to the next client.
C29_Original ==
    \A i \in FailedBlockSends :
        LET c == seq_calls[i].client_i
        IN  /\ \A j \in DOMAIN seq_calls :
                 (j > i /\ seq_calls[j].client_i = c)
                     => (j = i + 1 /\ seq_calls[j].call = "close")
            /\ \E j \in DOMAIN seq_calls :
                 /\ seq_calls[j] = [call |-> "close", client_i |-> c,
                                    ok |-> TRUE]
            /\ ~(seq_pc = "exit_failure"
                   /\ seq_calls[Len(seq_calls)].client_i = c)
            /\ seq_client_i > c

\* ---------------------------------------------------------------------
\* The thread-per-connection server: main() accepts each client into its
\* own THREAD_ARGS and starts thread_func on it, then joins the threads.

ThrFileSizes == {0, 1500}

\* The THREAD_ARGS indices of one run.
ThrIndices == 0 .. thr_num_clients - 1

\* The main thread in thr_access.
MainThread == -1

\* pthread_create(..., thread_func, &args[client_i]): which THREAD_ARGS the
\* new thread is given.
ArgGiven(client_i) == client_i

\* pthread_join as it would be if it returned without waiting.
JoinReturns_AtOnce(worker_pc) == TRUE

\* pthread_join(args[i].tid, NULL) returns once the thread has returned.
JoinReturns(worker_pc) == worker_pc = "returned"

\* main() after calloc and the initialising loop, server_open_src_file,
\* init_shutdown_control and server_init_listen_socket.
ThrInit ==
    /\ thr_pc = "for_test"
    /\ thr_num_clients \in SeqNumClients
    /\ thr_file_size \in ThrFileSizes
    /\ thr_client_i = 0
    /\ thr_join_i = 0
    /\ thr_args = [i \in ThrIndices |->
                     [clent_active |-> FALSE,
                      conn |-> [client_sock_fd |-> 0, src_file_offset |-> 0]]]
    /\ thr_threads = [i \in ThrIndices |-> [pc |-> "none", arg |-> i]]
    /\ thr_open_fds = 0 .. 4
    /\ thr_sigint = FALSE
    /\ thr_access = {}
    /\ thr_late_io = FALSE
    /\ SrvOff
    /\ RtOff
    /\ PairOff
    /\ SeqOff
    /\ LabOff

ProcessRunning == thr_pc \notin {"off", "exit_failure", "exit_success"}

\* sigint_handler
thr_sigint_handler ==
    /\ ProcessRunning
    /\ ~thr_sigint
    /\ thr_sigint' = TRUE
    /\ UNCHANGED <<not_thr_vars, thr_pc, thr_num_clients, thr_file_size,
                   thr_client_i, thr_join_i, thr_args, thr_threads,
                   thr_open_fds, thr_access, thr_late_io>>

\* for (...; !program_in_shutdown() && client_i < num_clients; ...), and
\* for (long i = 0; ...) of the joining loop after it.
thr_for_test ==
    /\ thr_pc = "for_test"
    /\ thr_pc' = IF ~thr_sigint /\ thr_client_i < thr_num_clients
                 THEN "accept" ELSE "join"
    /\ thr_join_i' = 0
    /\ UNCHANGED <<not_thr_vars, thr_num_clients, thr_file_size, thr_client_i,
                   thr_args, thr_threads, thr_open_fds, thr_sigint, thr_access,
                   thr_late_io>>

\* An access by thread `by` to the connection record of args[record], kept
\* when a thread has already been started on that record.
AccessBy(by, record) ==
    IF \E t \in ThrIndices :
          thr_threads[t].pc # "none" /\ thr_threads[t].arg = record
    THEN {[by |-> by, record |-> record]}
    ELSE {}

\* server_accept_connection_request(&server, &args[client_i].conn), the
\* test of its result and args[client_i].clent_active = true.
thr_accept_connection_request ==
    /\ thr_pc = "accept"
    /\ thr_access' = thr_access \cup AccessBy(MainThread, thr_client_i)
    /\ \/ /\ thr_args' = [thr_args EXCEPT
                            ![thr_client_i].conn.client_sock_fd =
                                LowestFreeFd(thr_open_fds),
                            ![thr_client_i].clent_active = TRUE]
          /\ thr_open_fds' = thr_open_fds \cup {LowestFreeFd(thr_open_fds)}
          /\ thr_pc' = "create"
          /\ UNCHANGED thr_sigint
       \/ \E arrives \in BOOLEAN :
            /\ thr_sigint' = (thr_sigint \/ arrives)
            /\ thr_args' = [thr_args EXCEPT
                              ![thr_client_i].conn.client_sock_fd = -1]
            /\ thr_pc' = IF thr_sigint' THEN "join" ELSE "exit_failure"
            /\ UNCHANGED thr_open_fds
    /\ UNCHANGED <<not_thr_vars, thr_num_clients, thr_file_size, thr_client_i,
                   thr_join_i, thr_threads, thr_late_io>>

\* pthread_attr_init, pthread_attr_setaffinity_np, pthread_create and
\* pthread_attr_destroy; then ++client_i.  A failure ends the process.
thr_pthread_create ==
    /\ thr_pc = "create"
    /\ \/ /\ thr_threads' = [thr_threads EXCEPT ![thr_client_i] =
                               [pc |-> "send_file_size",
                                arg |-> ArgGiven(thr_client_i)]]
          /\ thr_client_i' = thr_client_i + 1
          /\ thr_pc' = "for_test"
       \/ /\ thr_pc' = "exit_failure"
          /\ UNCHANGED <<thr_threads, thr_client_i>>
    /\ UNCHANGED <<not_thr_vars, thr_num_clients, thr_file_size, thr_join_i,
                   thr_args, thr_open_fds, thr_sigint, thr_access, thr_late_io>>

\* What thread t does when a send has failed or the file is through:
\* server_close_conn_socket(conn) and return; a failed close() ends the
\* process.
WorkerLeaves(t, fd) ==
    LET c == SeqClose(thr_open_fds, fd)
    IN  /\ thr_open_fds' = c.open_fds
        /\ thr_threads' = [thr_threads EXCEPT
                             ![t].pc = IF c.ok THEN "returned" ELSE @]
        /\ thr_pc' = IF c.ok THEN thr_pc ELSE "exit_failure"

\* thread_func: server_send_file_size(server, conn) and the test after it.
thr_send_file_size(t) ==
    /\ ProcessRunning
    /\ thr_threads[t].pc = "send_file_size"
    /\ LET record == thr_threads[t].arg
           conn == thr_args[record].conn
           outcomes == IF conn.client_sock_fd \in thr_open_fds
                       THEN WriteOutcomes(SIZEOF_FILE_SIZE)
                       ELSE {BadFdWrite}
       IN  /\ thr_access' = thr_access \cup AccessBy(t, record)
           /\ thr_late_io' = (thr_late_io \/ 3 \notin thr_open_fds)
           /\ \E w \in outcomes :
                IF w.ret = SIZEOF_FILE_SIZE
                THEN /\ thr_args' = [thr_args EXCEPT
                                       ![record].conn.src_file_offset = 0]
                     /\ thr_threads' = [thr_threads EXCEPT
                                          ![t].pc = "send_file_block"]
                     /\ UNCHANGED <<thr_open_fds, thr_pc>>
                ELSE /\ WorkerLeaves(t, conn.client_sock_fd)
                     /\ UNCHANGED thr_args
    /\ UNCHANGED <<not_thr_vars, thr_num_clients, thr_file_size, thr_client_i,
                   thr_join_i, thr_sigint>>

\* thread_func: one evaluation of while (conn->src_file_offset <
\* server->src_file_size) with server_send_file_block and the test after
\* it, or the end of the loop with server_close_conn_socket and return.
thr_send_file_block(t) ==
    /\ ProcessRunning
    /\ thr_threads[t].pc = "send_file_block"
    /\ LET record == thr_threads[t].arg
           conn == thr_args[record].conn
           bytes_read == Min(TRANSFER_BLOCK_SIZE,
                             thr_file_size - conn.src_file_offset)
           outcomes == IF /\ conn.client_sock_fd \in thr_open_fds
                          /\ 3 \in thr_open_fds
                       THEN WriteOutcomes(bytes_read)
                       ELSE {BadFdWrite}
       IN  /\ thr_access' = thr_access \cup AccessBy(t, record)
           /\ IF conn.src_file_offset < thr_file_size
              THEN /\ thr_late_io' = (thr_late_io \/ 3 \notin thr_open_fds)
                   /\ \E w \in outcomes :
                        IF w.ret = bytes_read
                        THEN /\ thr_args' =
                                  [thr_args EXCEPT
                                     ![record].conn.src_file_offset = @ + w.ret]
                             /\ UNCHANGED <<thr_threads, thr_open_fds, thr_pc>>
                        ELSE /\ WorkerLeaves(t, conn.client_sock_fd)
                             /\ UNCHANGED thr_args
              ELSE /\ WorkerLeaves(t, conn.client_sock_fd)
                   /\ UNCHANGED <<thr_args, thr_late_io>>
    /\ UNCHANGED <<not_thr_vars, thr_num_clients, thr_file_size, thr_client_i,
                   thr_join_i, thr_sigint>>

\* One iteration of the joining loop: entries that are not active are
\* skipped, pthread_join waits for the others.
thr_pthread_join ==
    /\ thr_pc = "join"
    /\ IF thr_join_i >= thr_num_clients
       THEN /\ thr_pc' = "close"
            /\ UNCHANGED thr_join_i
       ELSE /\ \/ ~thr_args[thr_join_i].clent_active
               \/ JoinReturns(thr_threads[thr_join_i].pc)
            /\ thr_join_i' = thr_join_i + 1
            /\ UNCHANGED thr_pc
    /\ UNCHANGED <<not_thr_vars, thr_num_clients, thr_file_size, thr_client_i,
                   thr_args, thr_threads, thr_open_fds, thr_sigint, thr_access,
                   thr_late_io>>

\* server_close_listen_socket(&server); server_close_src_file(&server);
thr_close_listen_and_src ==
    /\ thr_pc = "close"
    /\ thr_open_fds' = thr_open_fds \ {3, 4}
    /\ thr_pc' = "print"
    /\ UNCHANGED <<not_thr_vars, thr_num_clients, thr_file_size, thr_client_i,
                   thr_join_i, thr_args, thr_threads, thr_sigint, thr_access,
                   thr_late_io>>

\* printf("Transfer finished\n"); return EXIT_SUCCESS;
thr_transfer_finished ==
    /\ thr_pc = "print"
    /\ thr_pc' = "exit_success"
    /\ UNCHANGED <<not_thr_vars, thr_num_clients, thr_file_size, thr_client_i,
                   thr_join_i, thr_args, thr_threads, thr_open_fds, thr_sigint,
                   thr_access, thr_late_io>>

ThrNext ==
    \/ thr_sigint_handler
    \/ thr_for_test
    \/ thr_accept_connection_request
    \/ thr_pthread_create
    \/ \E t \in ThrIndices : thr_send_file_size(t)
    \/ \E t \in ThrIndices : thr_send_file_block(t)
    \/ thr_pthread_join
    \/ thr_close_listen_and_src
    \/ thr_transfer_finished

SpecThreads == ThrInit /\ [][ThrNext]_vars

\* The threads that have been started and have not returned.
WorkersAtWork ==
    {t \in ThrIndices : thr_threads[t].pc \notin {"none", "returned"}}

\* C30: every access to a connection record made after a thread was started
\* on it is by that thread, and no two threads are given the same record;
\* while the listening socket or the source file is closed, or "Transfer
\* finished" is being or has been printed, no thread is at work; and no
\* worker has used the source file or its socket after the file was closed.
C30_WorkersDoneBeforeClose ==
    /\ \A a \in thr_access :
         /\ a.by # MainThread
         /\ thr_threads[a.by].arg = a.record
    /\ \A t, u \in ThrIndices :
         (t # u /\ thr_threads[t].pc # "none" /\ thr_threads[u].pc # "none")
             => thr_threads[t].arg # thr_threads[u].arg
    /\ (\/ thr_pc \in {"print", "exit_success"}
        \/ (thr_pc # "off" /\ ~({3, 4} \subseteq thr_open_fds)))
           => WorkersAtWork = {}
    /\ ~thr_late_io

\* Two workers have each sent the whole file on their own connection, and
\* the main thread has joined both, closed and printed.
C30_Witness ==
    /\ thr_pc = "exit_success"
    /\ thr_num_clients = 2
    /\ thr_file_size > 0
    /\ \A t \in ThrIndices :
         /\ thr_threads[t].pc = "returned"
         /\ thr_args[t].conn.src_file_offset = thr_file_size
         /\ [by |-> t, record |-> t] \in thr_access

\* ---------------------------------------------------------------------
\* The futex mutex: 02_nonblocking_sync/futex.c, its copy with GCC builtins
\* (lock, unlock and thread_func without the check of the word) and
\* 01_pthreads_sync/erm_futex.c, which encodes the states differently and
\* places the word across a cache line boundary.

\* <<NUM_THREADS, NUM_ITERATIONS>>
FxConfigs == {<<2, 2>>, <<3, 2>>}
\* The same for the runs under fair scheduling.
FxFairConfigs == {<<2, 2>>, <<3, 1>>}

\* The states of the mutex in each program; what unlock subtracts (1 or
\* M_LOCKD, and M_ULOCKD in erm_futex.c); and whether the futex system call
\* works: it takes a word aligned to 4 bytes only, &mutex[56] is, &mutex[62]
\* is not, and there every call fails with EINVAL.
Mutex(v) ==
    IF v = "erm_futex"
    THEN [M_ULOCKD |-> 2048, M_LOCKD |-> 4096, M_LOCKD_WQ |-> 8192,
          decrement |-> 2048, futex_works |-> FALSE]
    ELSE [M_ULOCKD |-> 0, M_LOCKD |-> 1, M_LOCKD_WQ |-> 2,
          decrement |-> 1, futex_works |-> TRUE]

\* The states thread_func compares the word with if only the encoding
\* 0, 1, 2 is known.
CheckedStates_OneEncoding(v) == <<1, 0, 2>>

\* The states thread_func compares the word with, in the order of its test:
\* *mutex != M_LOCKD && *mutex != M_ULOCKD && *mutex != M_LOCKD_WQ.
CheckedStates(v) ==
    <<Mutex(v).M_LOCKD, Mutex(v).M_ULOCKD, Mutex(v).M_LOCKD_WQ>>

\* compare-and-swap as it would be if any word without waiters let the
\* caller in.
CasSucceeds_NoWaiters(old, v) == old # Mutex(v).M_LOCKD_WQ

\* atomic_compare_exchange_strong(mutex, &status, M_LOCKD) with status ==
\* M_ULOCKD succeeds when the word is M_ULOCKD.
CasSucceeds(old, v) == old = Mutex(v).M_ULOCKD

\* FUTEX_WAKE as it would be if it woke nobody.
Woken_Nobody(asleep) == {{}}

\* futex(mutex, FUTEX_WAKE, 1): one of the sleeping threads, if there is one.
Woken(asleep) == IF asleep = {} THEN {{}} ELSE {{t} : t \in asleep}

FxThreadIds == 1 .. fx_num_threads

\* The word with one half replaced by that of another word.  The halves lie
\* in different cache lines when the word starts at byte 62 of a 64-byte
\* line.
WithLowHalfOf(word, other) == (word \div 65536) * 65536 + (other % 65536)
WithHighHalfOf(word, other) == (other \div 65536) * 65536 + (word % 65536)

\* The thread goes on to the next iteration of its for loop, or returns.
NextIteration(th) ==
    [th EXCEPT !.i = @ + 1,
               !.pc = IF th.i + 1 < fx_num_iterations THEN "cas" ELSE "returned"]

\* main() up to the start of the threads, for the given configurations.
FxStart(configs) ==
    /\ fx_variant \in {"futex", "erm_futex"}
    /\ \E c \in configs : fx_num_threads = c[1] /\ fx_num_iterations = c[2]
    /\ fx_mutex = Mutex(fx_variant).M_ULOCKD
    /\ fx_var = 0
    /\ fx_threads = [t \in FxThreadIds |->
                       [pc |-> "cas", i |-> 0, status |-> 0, load |-> 1,
                        seen |-> 0]]
    /\ fx_printed = FALSE
    /\ NetOff
    /\ AioOff
    /\ UrOff
    /\ SqOff
    /\ RbOff
    /\ TkOff

FxInit == FxStart(FxConfigs)

\* One step of thread t inside lock().
fx_lock(t) ==
    /\ \/ \* (1) the compare-and-swap and the two tests after it
          /\ fx_threads[t].pc = "cas"
          /\ fx_mutex' = IF CasSucceeds(fx_mutex, fx_variant)
                         THEN Mutex(fx_variant).M_LOCKD ELSE fx_mutex
          /\ fx_threads' = [fx_threads EXCEPT
               ![t].status = fx_mutex,
               ![t].pc = IF CasSucceeds(fx_mutex, fx_variant) THEN "check"
                         ELSE IF fx_mutex # Mutex(fx_variant).M_LOCKD_WQ
                         THEN "xchg" ELSE "futex_wait"]
       \/ \* (2) and the exchange in the loop, with the loop test
          /\ fx_threads[t].pc = "xchg"
          /\ fx_mutex' = Mutex(fx_variant).M_LOCKD_WQ
          /\ fx_threads' = [fx_threads EXCEPT
               ![t].status = fx_mutex,
               ![t].pc = IF fx_mutex # Mutex(fx_variant).M_ULOCKD
                         THEN "futex_wait" ELSE "check"]
       \/ \* futex(mutex, FUTEX_WAIT, M_LOCKD_WQ): sleeps if the word is
          \* M_LOCKD_WQ, returns at once otherwise or when the call fails
          /\ fx_threads[t].pc = "futex_wait"
          /\ fx_threads' = [fx_threads EXCEPT
               ![t].pc = IF /\ Mutex(fx_variant).futex_works
                            /\ fx_mutex = Mutex(fx_variant).M_LOCKD_WQ
                         THEN "asleep" ELSE "xchg"]
          /\ UNCHANGED fx_mutex
    /\ UNCHANGED <<not_fx_vars, fx_variant, fx_num_threads, fx_num_iterations,
                   fx_var, fx_printed>>

\* FUTEX_WAIT returns without a FUTEX_WAKE (a spurious wake-up).
fx_futex_wait_returns(t) ==
    /\ fx_threads[t].pc = "asleep"
    /\ fx_threads' = [fx_threads EXCEPT ![t].pc = "xchg"]
    /\ UNCHANGED <<not_fx_vars, fx_variant, fx_num_threads, fx_num_iterations,
                   fx_mutex, fx_var, fx_printed>>

\* One step of thread t in the critical section of thread_func.
fx_thread_func(t) ==
    /\ \/ \* The test of the word.  The word is loaded up to three times,
          \* once for each comparison; a load of the word at &mutex[62]
          \* takes its two halves one after the other.  (The copy of
          \* futex.c with the GCC builtins has no such test.)
          /\ fx_threads[t].pc \in {"check", "check_high"}
          /\ UNCHANGED fx_var
          /\ IF fx_variant = "erm_futex" /\ fx_threads[t].pc = "check"
             THEN /\ fx_threads' = [fx_threads EXCEPT
                       ![t].seen = fx_mutex, ![t].pc = "check_high"]
                  /\ UNCHANGED fx_printed
             ELSE LET word == IF fx_variant = "erm_futex"
                              THEN WithLowHalfOf(fx_mutex, fx_threads[t].seen)
                              ELSE fx_mutex
                      load == fx_threads[t].load
                  IN  IF word = CheckedStates(fx_variant)[load]
                      THEN /\ fx_threads' = [fx_threads EXCEPT
                                ![t].load = 1, ![t].pc = "read_var"]
                           /\ UNCHANGED fx_printed
                      ELSE IF load < 3
                      THEN /\ fx_threads' = [fx_threads EXCEPT
                                ![t].load = @ + 1, ![t].pc = "check"]
                           /\ UNCHANGED fx_printed
                      ELSE /\ fx_threads' = [fx_threads EXCEPT
                                ![t].load = 1, ![t].pc = "read_var"]
                           /\ fx_printed' = TRUE
       \/ \* var++: the load of var
          /\ fx_threads[t].pc = "read_var"
          /\ fx_threads' = [fx_threads EXCEPT ![t].seen = fx_var,
                                              ![t].pc = "write_var"]
          /\ UNCHANGED <<fx_var, fx_printed>>
       \/ \* var++: the store of the incremented value.  (var is a
          \* uint32_t, and NUM_THREADS * NUM_ITERATIONS is below 2^32 in
          \* each of the programs.)
          /\ fx_threads[t].pc = "write_var"
          /\ fx_var' = fx_threads[t].seen + 1
          /\ fx_threads' = [fx_threads EXCEPT ![t].pc = "fetch_sub"]
          /\ UNCHANGED fx_printed
    /\ UNCHANGED <<not_fx_vars, fx_variant, fx_num_threads, fx_num_iterations,
                   fx_mutex>>

\* One step of thread t inside unlock().
fx_unlock(t) ==
    /\ \/ \* the atomic subtraction and the test of the value it returns
          /\ fx_threads[t].pc = "fetch_sub"
          /\ fx_mutex' = fx_mutex - Mutex(fx_variant).decrement
          /\ fx_threads' = [fx_threads EXCEPT ![t] =
               IF fx_mutex # Mutex(fx_variant).M_LOCKD
               THEN [@ EXCEPT !.pc = "store"]
               ELSE NextIteration(@)]
       \/ \* The store of M_ULOCKD.  In erm_futex.c it is a plain store to
          \* the word at &mutex[62], which writes the two halves one after
          \* the other, in either order.
          /\ fx_threads[t].pc = "store"
          /\ IF fx_variant = "erm_futex"
             THEN \E low_first \in BOOLEAN :
                    /\ fx_mutex' =
                         IF low_first
                         THEN WithLowHalfOf(fx_mutex, Mutex(fx_variant).M_ULOCKD)
                         ELSE WithHighHalfOf(fx_mutex, Mutex(fx_variant).M_ULOCKD)
                    /\ fx_threads' = [fx_threads EXCEPT
                         ![t].pc = IF low_first THEN "store_high"
                                   ELSE "store_low"]
             ELSE /\ fx_mutex' = Mutex(fx_variant).M_ULOCKD
                  /\ fx_threads' = [fx_threads EXCEPT ![t].pc = "futex_wake"]
       \/ /\ fx_threads[t].pc \in {"store_low", "store_high"}
          /\ fx_mutex' =
               IF fx_threads[t].pc = "store_low"
               THEN WithLowHalfOf(fx_mutex, Mutex(fx_variant).M_ULOCKD)
               ELSE WithHighHalfOf(fx_mutex, Mutex(fx_variant).M_ULOCKD)
          /\ fx_threads' = [fx_threads EXCEPT ![t].pc = "futex_wake"]
       \/ \* futex(mutex, FUTEX_WAKE, 1), which fails in erm_futex.c
          /\ fx_threads[t].pc = "futex_wake"
          /\ UNCHANGED fx_mutex
          /\ \E woken \in
                 IF Mutex(fx_variant).futex_works
                 THEN Woken({u \in FxThreadIds : fx_threads[u].pc = "asleep"})
                 ELSE {{}} :
               fx_threads' = [u \in FxThreadIds |->
                                IF u = t THEN NextIteration(fx_threads[u])
                                ELSE IF u \in woken
                                THEN [fx_threads[u] EXCEPT !.pc = "xchg"]
                                ELSE fx_threads[u]]
    /\ UNCHANGED <<not_fx_vars, fx_variant, fx_num_threads, fx_num_iterations,
                   fx_var, fx_printed>>

FxNext ==
    \/ \E t \in FxThreadIds : fx_lock(t)
    \/ \E t \in FxThreadIds : fx_futex_wait_returns(t)
    \/ \E t \in FxThreadIds : fx_thread_func(t)
    \/ \E t \in FxThreadIds : fx_unlock(t)

SpecFutex == FxInit /\ [][FxNext]_vars

\* Thread t is between the return of lock() and its call of unlock().
InCriticalSection(t) ==
    fx_threads[t].pc \in {"check", "check_high", "read_var", "write_var",
                          "fetch_sub"}

\* The increments of var that the threads 1 .. t have completed.
RECURSIVE IncrementsDone(_)
IncrementsDone(t) ==
    IF t = 0 THEN 0
    ELSE IncrementsDone(t - 1) + fx_threads[t].i
           + (IF fx_threads[t].pc \in {"fetch_sub", "store", "store_low",
                                        "store_high", "futex_wake"}
              THEN 1 ELSE 0)

\* C31: at most one thread is between the return of lock() and its call of
\* unlock(); var counts every increment completed so far, and once all
\* threads have returned it is NUM_THREADS * NUM_ITERATIONS.
C31_MutualExclusion ==
    fx_variant # "off" =>
        /\ Cardinality({t \in FxThreadIds : InCriticalSection(t)}) <= 1
        /\ fx_var = IncrementsDone(fx_num_threads)
        /\ (\A t \in FxThreadIds : fx_threads[t].pc = "returned")
               => fx_var = fx_num_threads * fx_num_iterations

\* One thread is about to store its increment while a second one sleeps in
\* FUTEX_WAIT and a third is about to exchange the word, after earlier
\* increments by others.
C31_Witness ==
    /\ fx_num_threads = 3
    /\ fx_var >= 2
    /\ \E t, u, w \in FxThreadIds :
         /\ fx_threads[t].pc = "write_var"
         /\ fx_threads[u].pc = "asleep"
         /\ fx_threads[w].pc = "xchg"

\* Fair scheduling: every thread that can take a step of its own does so
\* in the end.  A spurious return of FUTEX_WAIT is never owed.
SpecFutexFair ==
    /\ FxStart(FxFairConfigs)
    /\ [][FxNext]_vars
    /\ \A t \in 1 .. 3 :
         WF_vars(t \in FxThreadIds
                   /\ (fx_lock(t) \/ fx_thread_func(t) \/ fx_unlock(t)))

\* Thread t is inside lock().
InLock(t) ==
    IF t \in FxThreadIds
    THEN fx_threads[t].pc \in {"cas", "xchg", "futex_wait", "asleep"}
    ELSE FALSE

\* C32: under fair scheduling every thread that is inside lock() gets the
\* mutex in the end, none stays asleep in FUTEX_WAIT for ever, and all
\* threads finish their iterations.
C32_NoLostWakeup ==
    /\ \A t \in 1 .. 3 :
         InLock(t) ~> (IF t \in FxThreadIds THEN InCriticalSection(t) ELSE FALSE)
    /\ <>[](\A t \in FxThreadIds : fx_threads[t].pc = "returned")

\* A thread sleeps in FUTEX_WAIT while the mutex is unlocked and the thread
\* that unlocked it has still to call FUTEX_WAKE.
C32_Witness ==
    /\ fx_variant = "futex"
    /\ fx_mutex = Mutex(fx_variant).M_ULOCKD
    /\ \E t, u \in FxThreadIds :
         /\ fx_threads[t].pc = "asleep"
         /\ fx_threads[u].pc = "futex_wake"

\* The word as a thread about to finish a load of it reads it.
WordRead(t) ==
    IF fx_variant = "erm_futex"
    THEN WithLowHalfOf(fx_mutex, fx_threads[t].seen)
    ELSE fx_mutex

\* C33: while a thread is between lock() and unlock() the word is M_LOCKD
\* or M_LOCKD_WQ, every load of the word by thread_func reads one of the
\* two, and the message about an invalid word is never printed; in both
\* encodings of the states.
C33_DefinedWordInCriticalSection ==
    fx_variant # "off" =>
        /\ ~fx_printed
        /\ \A t \in FxThreadIds :
             /\ InCriticalSection(t) =>
                  fx_mutex \in {Mutex(fx_variant).M_LOCKD,
                                Mutex(fx_variant).M_LOCKD_WQ}
             /\ fx_threads[t].pc = "check_high" =>
                  WordRead(t) \in {Mutex(fx_variant).M_LOCKD,
                                   Mutex(fx_variant).M_LOCKD_WQ}

\* The holder in erm_futex.c is at the third comparison of its test, with
\* the word 0x2000, after another thread's compare-and-swap has read the
\* word 0x1800 that the previous unlock() left for a moment.
C33_Witness ==
    /\ fx_variant = "erm_futex"
    /\ fx_mutex = 8192
    /\ \E t, u \in FxThreadIds :
         /\ fx_threads[t].pc = "check_high"
         /\ fx_threads[t].load = 3
         /\ fx_threads[u].status = 6144

\* ---------------------------------------------------------------------
\* The ticket lock: 02_nonblocking_sync/ticket-lock.c
\* ---------------------------------------------------------------------

\* <<NUM_THREADS, NUM_ITERATIONS, acquire/release pairs done before>>.  The
\* third component stands for the earlier iterations of a longer run: after
\* k pairs next_ticket and now_serving are both k.
TkConfigs == {<<3, 2, 0>>, <<2, 3, 0>>, <<3, 2, 32765>>, <<2, 2, 32766>>}

TkThreadIds == 1 .. tk_num_threads

\* const short ticket = <a uint16_t>: the value modulo 2^16 in the range of
\* short.
ToShort(x) == IF x >= 32768 THEN x - 65536 ELSE x

\* The comparison as it would be if a thread went in as long as its turn
\* had not passed.
TicketServed_NotPassed(now_serving, ticket) == now_serving <= ticket

\* The negation of lock->now_serving != ticket, after the promotion of the
\* uint16_t and of the short to int.
TicketServed(now_serving, ticket) == now_serving = ticket

\* main() up to the start of the threads.
TkInit ==
    /\ \E c \in TkConfigs :
         /\ tk_num_threads = c[1]
         /\ tk_num_iterations = c[2]
         /\ tk_next_ticket = c[3]
         /\ tk_now_serving = c[3]
    /\ tk_var = 0
    /\ tk_threads = [t \in TkThreadIds |->
                       [pc |-> "fetch_add", i |-> 0, ticket |-> 0, seen |-> 0]]
    /\ tk_drawn = <<>>
    /\ tk_entered = <<>>
    /\ NetOff
    /\ AioOff
    /\ UrOff
    /\ SqOff
    /\ RbOff
    /\ FxOff

\* One step of thread t inside TicketLock_acquire.
tk_TicketLock_acquire(t) ==
    /\ \/ \* the ticket is drawn
          /\ tk_threads[t].pc = "fetch_add"
          /\ tk_next_ticket' = (tk_next_ticket + 1) % 65536
          /\ tk_threads' = [tk_threads EXCEPT
               ![t].ticket = ToShort(tk_next_ticket), ![t].pc = "spin"]
          /\ tk_drawn' = Append(tk_drawn, t)
          /\ UNCHANGED tk_entered
       \/ \* The for loop ends, because now_serving is the ticket or after
          \* TICKET_CYCLES_TO_SPIN cycles.
          /\ tk_threads[t].pc = "spin"
          /\ tk_threads' = [tk_threads EXCEPT ![t].pc = "yield"]
          /\ UNCHANGED <<tk_next_ticket, tk_drawn, tk_entered>>
       \/ \* The while loop ends when now_serving is the ticket.
          /\ tk_threads[t].pc = "yield"
          /\ TicketServed(tk_now_serving, tk_threads[t].ticket)
          /\ tk_threads' = [tk_threads EXCEPT ![t].pc = "read_var"]
          /\ tk_entered' = Append(tk_entered, t)
          /\ UNCHANGED <<tk_next_ticket, tk_drawn>>
    /\ UNCHANGED <<not_tk_vars, tk_num_threads, tk_num_iterations,
                   tk_now_serving, tk_var>>

\* One step of thread t in the critical section of thread_func: var++ as a
\* load and a store.
tk_thread_func(t) ==
    /\ \/ /\ tk_threads[t].pc = "read_var"
          /\ tk_threads' = [tk_threads EXCEPT ![t].seen = tk_var,
                                              ![t].pc = "write_var"]
          /\ UNCHANGED tk_var
       \/ /\ tk_threads[t].pc = "write_var"
          /\ tk_var' = tk_threads[t].seen + 1
          /\ tk_threads' = [tk_threads EXCEPT ![t].pc = "release"]
    /\ UNCHANGED <<not_tk_vars, tk_num_threads, tk_num_iterations,
                   tk_next_ticket, tk_now_serving, tk_drawn, tk_entered>>

\* TicketLock_release by thread t, and the step of its for loop.
tk_TicketLock_release(t) ==
    /\ tk_threads[t].pc = "release"
    /\ tk_now_serving' = (tk_now_serving + 1) % 65536
    /\ tk_threads' = [tk_threads EXCEPT
         ![t].i = @ + 1,
         ![t].pc = IF tk_threads[t].i + 1 < tk_num_iterations
                   THEN "fetch_add" ELSE "returned"]
    /\ UNCHANGED <<not_tk_vars, tk_num_threads, tk_num_iterations,
                   tk_next_ticket, tk_var, tk_drawn, tk_entered>>

TkNext ==
    \/ \E t \in TkThreadIds : tk_TicketLock_acquire(t)
    \/ \E t \in TkThreadIds : tk_thread_func(t)
    \/ \E t \in TkThreadIds : tk_TicketLock_release(t)

SpecTicket == TkInit /\ [][TkNext]_vars

\* Thread t is between the return of TicketLock_acquire and the call of
\* TicketLock_release.
TkInCriticalSection(t) ==
    tk_threads[t].pc \in {"read_var", "write_var", "release"}

\* C34: at most one thread is between TicketLock_acquire and
\* TicketLock_release, and the threads enter the critical section in the
\* order of their fetch-add on next_ticket: the sequence of entries is
\* always a prefix of the sequence of draws.
C34_MutualExclusionFifo ==
    tk_num_threads # 0 =>
        /\ Cardinality({t \in TkThreadIds : TkInCriticalSection(t)}) <= 1
        /\ Len(tk_entered) <= Len(tk_drawn)
        /\ tk_entered = SubSeq(tk_drawn, 1, Len(tk_entered))

\* Three threads have drawn tickets in an order that is not the order of
\* their numbers, the first two draws have been served and the second of
\* them is in the critical section while another thread waits.
C34_Witness ==
    /\ tk_num_threads = 3
    /\ Len(tk_entered) >= 2
    /\ Len(tk_drawn) >= 3
    /\ tk_drawn[1] > tk_drawn[2]
    /\ \E t, u \in TkThreadIds :
         /\ tk_threads[t].pc = "write_var"
         /\ tk_threads[u].pc = "yield"

\* C35 as stated: when all holders of earlier tickets have released, that
\* is when now_serving is the value a waiting thread drew from next_ticket,
\* the thread's comparison of now_serving with its ticket is equal.
C35_Original ==
    tk_num_threads # 0 =>
        \A t \in TkThreadIds :
            (/\ tk_threads[t].pc \in {"spin", "yield"}
             /\ tk_now_serving = (tk_threads[t].ticket + 65536) % 65536)
                => TicketServed(tk_now_serving, tk_threads[t].ticket)

\* ---------------------------------------------------------------------
\* The single-producer single-consumer ring buffer:
\* 03_circular_buffer/circular-buffer.c
\* ---------------------------------------------------------------------

\* <<QUEUE_SIZE, NUM_ITERATIONS>>.  queue_init accepts the powers of two.
RbConfigs == {<<1, 3>>, <<2, 5>>, <<4, 6>>}

\* The test for a full queue as it would be if the queue were never full.
QueueFull_Never(tail, head, size) == FALSE

\* tail - head == queue->size.  (The indices are uint32_t and stay below
\* NUM_ITERATIONS, which is below 2^32.)
QueueFull(tail, head, size) == tail - head = size

\* index & (queue->size - 1), for a size that is a power of two.
Slot(index) == index % rb_queue.size

\* queue_init and the start of the two threads.
RbInit ==
    /\ rb_variant \in {"simple", "cached"}
    /\ \E c \in RbConfigs :
         /\ rb_queue = [data |-> [s \in 0 .. c[1] - 1 |-> 0], size |-> c[1],
                        cached_head |-> 0, cached_tail |-> 0,
                        head |-> 0, tail |-> 0]
         /\ rb_num_iterations = c[2]
    /\ rb_producer = [pc |-> "call", snd_i |-> 0, head |-> 0, tail |-> 0]
    /\ rb_consumer = [pc |-> "call", rcv_i |-> 0, snd_i |-> 0, head |-> 0,
                      tail |-> 0]
    /\ rb_enqueued = <<>>
    /\ rb_dequeued = <<>>
    /\ rb_overwritten = FALSE
    /\ rb_exit = "running"
    /\ NetOff
    /\ AioOff
    /\ UrOff
    /\ SqOff
    /\ FxOff
    /\ TkOff

\* The store of the element and the store of the new tail, the same in
\* queue_enqueue and queue_enqueue_simple.
EnqueueStores ==
    \/ /\ rb_producer.pc = "write_data"
       /\ rb_queue' = [rb_queue EXCEPT
            !.data[Slot(rb_producer.tail)] = rb_producer.snd_i]
       /\ rb_overwritten' =
            (rb_overwritten \/
               \E k \in rb_queue.head .. rb_queue.tail - 1 :
                   Slot(k) = Slot(rb_producer.tail))
       /\ rb_producer' = [rb_producer EXCEPT !.pc = "store_tail"]
       /\ UNCHANGED rb_enqueued
    \/ /\ rb_producer.pc = "store_tail"
       /\ rb_queue' = [rb_queue EXCEPT !.tail = rb_producer.tail + 1]
       /\ rb_enqueued' = Append(rb_enqueued, rb_producer.snd_i)
       /\ rb_producer' = [rb_producer EXCEPT !.pc = "success"]
       /\ UNCHANGED rb_overwritten

\* The load of the element and the store of the new head, the same in
\* queue_dequeue and queue_dequeue_simple.
DequeueStores ==
    \/ /\ rb_consumer.pc = "read_data"
       /\ rb_consumer' = [rb_consumer EXCEPT
            !.snd_i = rb_queue.data[Slot(rb_consumer.head)],
            !.pc = "store_head"]
       /\ UNCHANGED <<rb_queue, rb_dequeued>>
    \/ /\ rb_consumer.pc = "store_head"
       /\ rb_queue' = [rb_queue EXCEPT !.head = rb_consumer.head + 1]
       /\ rb_dequeued' = Append(rb_dequeued, rb_consumer.snd_i)
       /\ rb_consumer' = [rb_consumer EXCEPT !.pc = "success"]

\* One step of the producer inside queue_enqueue.
rb_queue_enqueue ==
    /\ rb_variant = "cached"
    /\ rb_exit = "running"
    /\ \/ \* the load of tail and the test against the cached head
          /\ rb_producer.pc = "enqueue"
          /\ rb_producer' = [rb_producer EXCEPT
               !.tail = rb_queue.tail,
               !.pc = IF QueueFull(rb_queue.tail, rb_queue.cached_head,
                                   rb_queue.size)
                      THEN "load_head" ELSE "write_data"]
          /\ UNCHANGED <<rb_queue, rb_enqueued, rb_overwritten>>
       \/ \* the load of head, which refreshes the cached head
          /\ rb_producer.pc = "load_head"
          /\ rb_queue' = [rb_queue EXCEPT !.cached_head = rb_queue.head]
          /\ rb_producer' = [rb_producer EXCEPT
               !.head = rb_queue.head,
               !.pc = IF QueueFull(rb_producer.tail, rb_queue.head,
                                   rb_queue.size)
                      THEN "call" ELSE "write_data"]
          /\ UNCHANGED <<rb_enqueued, rb_overwritten>>
       \/ EnqueueStores
    /\ UNCHANGED <<not_rb_vars, rb_variant, rb_num_iterations, rb_consumer,
                   rb_dequeued, rb_exit>>

\* One step of the consumer inside queue_dequeue.
rb_queue_dequeue ==
    /\ rb_variant = "cached"
    /\ rb_exit = "running"
    /\ \/ \* the load of head and the test against the cached tail
          /\ rb_consumer.pc = "dequeue"
          /\ rb_consumer' = [rb_consumer EXCEPT
               !.head = rb_queue.head,
               !.pc = IF rb_queue.cached_tail = rb_queue.head
                      THEN "load_tail" ELSE "read_data"]
          /\ UNCHANGED <<rb_queue, rb_dequeued>>
       \/ \* the load of tail, which refreshes the cached tail
          /\ rb_consumer.pc = "load_tail"
          /\ rb_queue' = [rb_queue EXCEPT !.cached_tail = rb_queue.tail]
          /\ rb_consumer' = [rb_consumer EXCEPT
               !.tail = rb_queue.tail,
               !.pc = IF rb_queue.tail = rb_consumer.head
                      THEN "call" ELSE "read_data"]
          /\ UNCHANGED rb_dequeued
       \/ DequeueStores
    /\ UNCHANGED <<not_rb_vars, rb_variant, rb_num_iterations, rb_producer,
                   rb_enqueued, rb_overwritten, rb_exit>>

\* One step of the producer inside queue_enqueue_simple.
rb_queue_enqueue_simple ==
    /\ rb_variant = "simple"
    /\ rb_exit = "running"
    /\ \/ \* [1] the load of head
          /\ rb_producer.pc = "enqueue"
          /\ rb_producer' = [rb_producer EXCEPT !.head = rb_queue.head,
                                                !.pc = "load_tail"]
          /\ UNCHANGED <<rb_queue, rb_enqueued, rb_overwritten>>
       \/ \* the load of tail and the test for a full queue
          /\ rb_producer.pc = "load_tail"
          /\ rb_producer' = [rb_producer EXCEPT
               !.tail = rb_queue.tail,
               !.pc = IF QueueFull(rb_queue.tail, rb_producer.head,
                                   rb_queue.size)
                      THEN "call" ELSE "write_data"]
          /\ UNCHANGED <<rb_queue, rb_enqueued, rb_overwritten>>
       \/ \* the store of the element and [2] the store of tail
          EnqueueStores
    /\ UNCHANGED <<not_rb_vars, rb_variant, rb_num_iterations, rb_consumer,
                   rb_dequeued, rb_exit>>

\* One step of the consumer inside queue_dequeue_simple.
rb_queue_dequeue_simple ==
    /\ rb_variant = "simple"
    /\ rb_exit = "running"
    /\ \/ \* the load of head
          /\ rb_consumer.pc = "dequeue"
          /\ rb_consumer' = [rb_consumer EXCEPT !.head = rb_queue.head,
                                                !.pc = "load_tail"]
          /\ UNCHANGED <<rb_queue, rb_dequeued>>
       \/ \* [3] the load of tail and the test for an empty queue
          /\ rb_consumer.pc = "load_tail"
          /\ rb_consumer' = [rb_consumer EXCEPT
               !.tail = rb_queue.tail,
               !.pc = IF rb_queue.tail = rb_consumer.head
                      THEN "call" ELSE "read_data"]
          /\ UNCHANGED <<rb_queue, rb_dequeued>>
       \/ \* the load of the element and [4] the store of head
          DequeueStores
    /\ UNCHANGED <<not_rb_vars, rb_variant, rb_num_iterations, rb_producer,
                   rb_enqueued, rb_overwritten, rb_exit>>

\* thread_producer: the call of the enqueue function, repeated until it
\* succeeds, for snd_i = 0 .. NUM_ITERATIONS - 1.  (The retry counter and
\* pthread_yield change nothing else.)
rb_thread_producer ==
    /\ rb_exit = "running"
    /\ \/ /\ rb_producer.pc = "call"
          /\ rb_producer' = [rb_producer EXCEPT !.pc = "enqueue"]
       \/ /\ rb_producer.pc = "success"
          /\ rb_producer' = [rb_producer EXCEPT
               !.snd_i = @ + 1,
               !.pc = IF rb_producer.snd_i + 1 < rb_num_iterations
                      THEN "call" ELSE "returned"]
    /\ UNCHANGED <<not_rb_vars, rb_variant, rb_num_iterations, rb_queue,
                   rb_consumer, rb_enqueued, rb_dequeued, rb_overwritten,
                   rb_exit>>

\* thread_consumer: the call of the dequeue function, repeated until it
\* succeeds, and the comparison of the element with rcv_i.
rb_thread_consumer ==
    /\ rb_exit = "running"
    /\ \/ /\ rb_consumer.pc = "call"
          /\ rb_consumer' = [rb_consumer EXCEPT !.pc = "dequeue"]
          /\ UNCHANGED rb_exit
       \/ /\ rb_consumer.pc = "success"
          /\ IF rb_consumer.snd_i # rb_consumer.rcv_i
             THEN /\ rb_exit' = "failure"
                  /\ UNCHANGED rb_consumer
             ELSE /\ rb_consumer' = [rb_consumer EXCEPT
                       !.rcv_i = @ + 1,
                       !.pc = IF rb_consumer.rcv_i + 1 < rb_num_iterations
                              THEN "call" ELSE "returned"]
                  /\ UNCHANGED rb_exit
    /\ UNCHANGED <<not_rb_vars, rb_variant, rb_num_iterations, rb_queue,
                   rb_producer, rb_enqueued, rb_dequeued, rb_overwritten>>

RbNext ==
    \/ rb_queue_enqueue
    \/ rb_queue_dequeue
    \/ rb_queue_enqueue_simple
    \/ rb_queue_dequeue_simple
    \/ rb_thread_producer
    \/ rb_thread_consumer

SpecRing == RbInit /\ [][RbNext]_vars

\* C36: the values dequeued are a prefix of the values enqueued, no element
\* is overwritten before it is dequeued, 0 <= tail - head <= size, and the
\* consumer never finds an element other than the one it expects; with
\* either pair of queue functions.
C36_FifoNoOverwrite ==
    rb_variant # "off" =>
        /\ Len(rb_dequeued) <= Len(rb_enqueued)
        /\ rb_dequeued = SubSeq(rb_enqueued, 1, Len(rb_dequeued))
        /\ ~rb_overwritten
        /\ rb_queue.tail - rb_queue.head >= 0
        /\ rb_queue.tail - rb_queue.head <= rb_queue.size
        /\ rb_exit = "running"

\* With the cached indices, the second time round a queue of two elements:
\* by its stale cached head the producer takes the queue to be full and is
\* about to load head again, while the consumer is reading the one element
\* in the queue.
C36_Witness ==
    /\ rb_variant = "cached"
    /\ rb_queue.size = 2
    /\ rb_queue.tail - rb_queue.head = 1
    /\ rb_queue.head >= 2
    /\ rb_queue.cached_head < rb_queue.head
    /\ rb_producer.pc = "load_head"
    /\ rb_consumer.pc = "read_data"

\* ---------------------------------------------------------------------
\* The seqlock: 03_readers_writers/seqlock.c
\* ---------------------------------------------------------------------

\* The parameters of the test bench.  half is the number of values of one
\* half of the counter: 2^32 in the program, small here, so that the
\* counter crosses from one value of high to the next within a few updates.
SqConfigs ==
    {[NUM_WRITERS |-> 2, NUM_READERS |-> 1, NUM_ITERATIONS |-> 2,
      ONE_INCREMENT |-> 3, half |-> 4],
     [NUM_WRITERS |-> 2, NUM_READERS |-> 2, NUM_ITERATIONS |-> 1,
      ONE_INCREMENT |-> 3, half |-> 4],
     [NUM_WRITERS |-> 1, NUM_READERS |-> 1, NUM_ITERATIONS |-> 3,
      ONE_INCREMENT |-> 5, half |-> 8]}

\* The same for the runs under fair scheduling.
SqFairConfigs ==
    {[NUM_WRITERS |-> 2, NUM_READERS |-> 1, NUM_ITERATIONS |-> 1,
      ONE_INCREMENT |-> 3, half |-> 4]}

SqWriterIds == 1 .. sq_config.NUM_WRITERS
SqReaderIds == 1 .. sq_config.NUM_READERS

\* (high << 32) | low
Joined(high, low) == high * sq_config.half + low

\* uint32_t seq0; declared in the body of the writer's for loop without an
\* initial value: what was left where it lives (the value of the previous
\* iteration among others).
Uninitialized(previous) == {0, 1, 2, previous}

\* The test of the reader's inner loop as it would be if the reader never
\* tried again.
ReaderRetries_Never(seq0, seq1) == FALSE

\* while (seq0 != seq1 || seq0 & 1U)
ReaderRetries(seq0, seq1) == seq0 # seq1 \/ seq0 % 2 = 1

\* main() up to the start of the threads, for the given configurations.
SqStart(configs) ==
    /\ sq_config \in configs
    /\ sq_seqlock = 0
    /\ sq_low = 0
    /\ sq_high = 0
    /\ sq_writers = [w \in SqWriterIds |->
                       [pc |-> "for", i |-> 0, seq0 |-> 0, current |-> 0]]
    /\ sq_readers = [r \in SqReaderIds |->
                       [pc |-> "load_seq0", seq0 |-> 0, seq1 |-> 0, low |-> 0,
                        high |-> 0, copy |-> 0]]
    /\ sq_history = {0}
    /\ NetOff
    /\ AioOff
    /\ UrOff
    /\ FxOff
    /\ TkOff
    /\ RbOff

SqInit == SqStart(SqConfigs)

\* One step of writer w in thread_writer.
sq_thread_writer(w) ==
    /\ \/ \* an iteration of the for loop begins, seq0 comes into being
          /\ sq_writers[w].pc = "for"
          /\ \E garbage \in Uninitialized(sq_writers[w].seq0) :
               sq_writers' = [sq_writers EXCEPT ![w].seq0 = garbage,
                                                ![w].pc = "while"]
          /\ UNCHANGED <<sq_seqlock, sq_low, sq_high, sq_history>>
       \/ \* The test of the while loop with an even seq0: the
          \* compare-exchange, which on failure puts the sequence number
          \* into seq0.  With an odd seq0 the compare-exchange is not
          \* reached: the writer sleeps and tests the same seq0 again.
          /\ sq_writers[w].pc = "while"
          /\ sq_writers[w].seq0 % 2 = 0
          /\ IF sq_seqlock = sq_writers[w].seq0
             THEN /\ sq_seqlock' = sq_writers[w].seq0 + 1
                  /\ sq_writers' = [sq_writers EXCEPT ![w].pc = "load_high"]
             ELSE /\ sq_writers' = [sq_writers EXCEPT ![w].seq0 = sq_seqlock]
                  /\ UNCHANGED sq_seqlock
          /\ UNCHANGED <<sq_low, sq_high, sq_history>>
       \/ \* current = (((uint64_t) *args->high) << 32U) | *args->low
          /\ sq_writers[w].pc = "load_high"
          /\ sq_writers' = [sq_writers EXCEPT ![w].current = sq_high,
                                              ![w].pc = "load_low"]
          /\ UNCHANGED <<sq_seqlock, sq_low, sq_high, sq_history>>
       \/ \* and current += ONE_INCREMENT
          /\ sq_writers[w].pc = "load_low"
          /\ sq_writers' = [sq_writers EXCEPT
               ![w].current = Joined(@, sq_low) + sq_config.ONE_INCREMENT,
               ![w].pc = "store_high"]
          /\ UNCHANGED <<sq_seqlock, sq_low, sq_high, sq_history>>
       \/ /\ sq_writers[w].pc = "store_high"
          /\ sq_high' = sq_writers[w].current \div sq_config.half
          /\ sq_writers' = [sq_writers EXCEPT ![w].pc = "store_low"]
          /\ UNCHANGED <<sq_seqlock, sq_low, sq_history>>
       \/ /\ sq_writers[w].pc = "store_low"
          /\ sq_low' = sq_writers[w].current % sq_config.half
          /\ sq_history' = sq_history \cup {Joined(sq_high, sq_low')}
          /\ sq_writers' = [sq_writers EXCEPT ![w].pc = "release"]
          /\ UNCHANGED <<sq_seqlock, sq_high>>
       \/ \* the releasing store, and the step of the for loop
          /\ sq_writers[w].pc = "release"
          /\ sq_seqlock' = sq_writers[w].seq0 + 2
          /\ sq_writers' = [sq_writers EXCEPT
               ![w].i = @ + 1,
               ![w].pc = IF sq_writers[w].i + 1 < sq_config.NUM_ITERATIONS
                         THEN "for" ELSE "returned"]
          /\ UNCHANGED <<sq_low, sq_high, sq_history>>
    /\ UNCHANGED <<not_sq_vars, sq_config, sq_readers>>

\* One step of reader r in thread_reader.
sq_thread_reader(r) ==
    /\ \/ /\ sq_readers[r].pc = "load_seq0"
          /\ sq_readers' = [sq_readers EXCEPT ![r].seq0 = sq_seqlock,
                                              ![r].pc = "load_low"]
       \/ /\ sq_readers[r].pc = "load_low"
          /\ sq_readers' = [sq_readers EXCEPT ![r].low = sq_low,
                                              ![r].pc = "load_high"]
       \/ /\ sq_readers[r].pc = "load_high"
          /\ sq_readers' = [sq_readers EXCEPT ![r].high = sq_high,
                                              ![r].pc = "load_seq1"]
       \/ \* the second read of the sequence number and the test of the
          \* inner loop
          /\ sq_readers[r].pc = "load_seq1"
          /\ sq_readers' = [sq_readers EXCEPT
               ![r].seq1 = sq_seqlock,
               ![r].pc = IF ReaderRetries(sq_readers[r].seq0, sq_seqlock)
                         THEN "load_seq0" ELSE "copy"]
       \/ \* args->copy = (high << 32U) | low, and the test of the outer loop
          /\ sq_readers[r].pc = "copy"
          /\ LET copy == Joined(sq_readers[r].high, sq_readers[r].low)
             IN  sq_readers' = [sq_readers EXCEPT
                   ![r].copy = copy,
                   ![r].pc = IF copy # sq_config.NUM_WRITERS
                                         * sq_config.NUM_ITERATIONS
                                         * sq_config.ONE_INCREMENT
                             THEN "load_seq0" ELSE "returned"]
    /\ UNCHANGED <<not_sq_vars, sq_config, sq_seqlock, sq_low, sq_high,
                   sq_writers, sq_history>>

SqNext ==
    \/ \E w \in SqWriterIds : sq_thread_writer(w)
    \/ \E r \in SqReaderIds : sq_thread_reader(r)

SpecSeqlock == SqInit /\ [][SqNext]_vars

\* Writer w is between its successful compare-exchange and its releasing
\* store.
SqInCriticalSection(w) ==
    sq_writers[w].pc \in {"load_high", "load_low", "store_high", "store_low",
                          "release"}

\* C37: the value a reader copies after its inner loop is the counter as
\* it stood after a complete update, hence a multiple of ONE_INCREMENT, and
\* at most one writer is between its compare-exchange and its releasing
\* store.
C37_ReadConsistency ==
    sq_config # <<>> =>
        /\ \A r \in SqReaderIds :
             /\ sq_readers[r].copy \in sq_history
             /\ sq_readers[r].copy % sq_config.ONE_INCREMENT = 0
             /\ sq_readers[r].pc = "copy" =>
                  Joined(sq_readers[r].high, sq_readers[r].low) \in sq_history
        /\ Cardinality({w \in SqWriterIds : SqInCriticalSection(w)}) <= 1

\* A reader has loaded the two halves from different updates (the low half
\* of 6 and the high half of 9, which make 10) and is about to read the
\* sequence number again, while it holds the earlier copy 3.
C37_Witness ==
    /\ sq_config # <<>>
    /\ \E r \in SqReaderIds :
         /\ sq_readers[r].pc = "load_seq1"
         /\ Joined(sq_readers[r].high, sq_readers[r].low) = 10
         /\ sq_readers[r].copy = 3

\* Fair scheduling: every thread that can take a step does so in the end.
\* A writer asleep in its while loop with an odd seq0 has no step that
\* changes anything.
SpecSeqlockFair ==
    /\ SqStart(SqFairConfigs)
    /\ [][SqNext]_vars
    /\ \A t \in 1 .. 2 :
         /\ WF_vars(t \in SqWriterIds /\ sq_thread_writer(t))
         /\ WF_vars(t \in SqReaderIds /\ sq_thread_reader(t))

\* C38 as stated: under fair scheduling all writers complete their
\* NUM_ITERATIONS updates, the counter reaches NUM_WRITERS * NUM_ITERATIONS
\* * ONE_INCREMENT and every reader terminates.
C38_Original ==
    <>(/\ \A w \in SqWriterIds : sq_writers[w].pc = "returned"
       /\ Joined(sq_high, sq_low) = sq_config.NUM_WRITERS
                                      * sq_config.NUM_ITERATIONS
                                      * sq_config.ONE_INCREMENT
       /\ \A r \in SqReaderIds : sq_readers[r].pc = "returned")

\* ---------------------------------------------------------------------
\* io-uring-cp: 04_async_io/io-uring-cp.c with common.h
\* ---------------------------------------------------------------------

READ_BLOCK_SIZE == 4096

\* <<QUEUE_SIZE, size of the source file>>
UrConfigs ==
    {<<2, 0>>, <<2, 1>>, <<2, 4096>>, <<2, 4097>>, <<2, 12288>>,
     <<2, 13000>>, <<3, 8192>>, <<3, 20000>>}

UrCells == 0 .. ur_queue_size - 1

\* bytes_left as it would be if the last block were always a full one.
BytesLeft_WholeBlocks(status) ==
    IF status.src_size > status.src_off THEN READ_BLOCK_SIZE ELSE 0

\* uint32_t bytes_left = status->src_size - status->src_off
BytesLeft(status) == status.src_size - status.src_off

\* prepare_read_request for a cell: nothing when no bytes are left, or the
\* new status, the request and the range handed out.
PrepareRead(status, cell) ==
    LET bytes_left == BytesLeft(status)
        size == IF bytes_left < READ_BLOCK_SIZE THEN bytes_left
                ELSE READ_BLOCK_SIZE
    IN  IF bytes_left = 0
        THEN [status |-> status, sqes |-> {}, assigned |-> <<>>]
        ELSE [status |->
                [status EXCEPT
                   !.block_statuses[cell] =
                       [stage |-> "BLOCK_IN_READ", offset |-> status.src_off,
                        size |-> size],
                   !.src_off = @ + size,
                   !.num_block_in_progress = @ + 1],
              sqes |-> {[user_data |-> cell, op |-> "read",
                         offset |-> status.src_off]},
              assigned |-> <<[cell |-> cell, offset |-> status.src_off,
                              size |-> size]>>]

\* main() up to the opening of the source file.
UrInit ==
    /\ ur_pc = "open_dst_file"
    /\ \E c \in UrConfigs :
         /\ ur_queue_size = c[1]
         /\ ur_status = [src_off |-> 0, src_size |-> c[2],
                         num_block_in_progress |-> 0,
                         block_statuses |->
                             [cell \in 0 .. c[1] - 1 |->
                                [stage |-> "BLOCK_IDLE", offset |-> 0,
                                 size |-> 0]]]
    /\ ur_cell_i = 0
    /\ ur_sq = {}
    /\ ur_kernel = {}
    /\ ur_cq = <<>>
    /\ ur_done = [assigned |-> <<>>, read |-> <<>>, written |-> <<>>]
    /\ NetOff
    /\ AioOff
    /\ FxOff
    /\ TkOff
    /\ RbOff
    /\ SqOff

\* open_dst_file: fallocate fails for a length of 0 (EINVAL) and may fail
\* for want of space; then the program exits.
ur_open_dst_file ==
    /\ ur_pc = "open_dst_file"
    /\ \E failed \in IF ur_status.src_size = 0 THEN {TRUE} ELSE BOOLEAN :
         ur_pc' = IF failed THEN "exit_failure" ELSE "first_reads"
    /\ UNCHANGED <<not_ur_vars, ur_queue_size, ur_cell_i, ur_status, ur_sq,
                   ur_kernel, ur_cq, ur_done>>

\* prepare_read_request, called from the first for loop of main() for the
\* cell cell_i or from the copy loop after finish_write_request.
ur_prepare_read_request ==
    /\ ur_pc \in {"first_reads", "prepare_read"}
    /\ LET cell == IF ur_pc = "first_reads" THEN ur_cell_i
                   ELSE Head(ur_cq).user_data
           new == PrepareRead(ur_status, cell)
       IN  /\ ur_status' = new.status
           /\ ur_sq' = ur_sq \cup new.sqes
           /\ ur_done' = [ur_done EXCEPT !.assigned = @ \o new.assigned]
    /\ IF ur_pc = "first_reads"
       THEN /\ ur_cell_i' = ur_cell_i + 1
            /\ ur_pc' = IF ur_cell_i + 1 < ur_queue_size THEN "first_reads"
                        ELSE "while"
            /\ UNCHANGED ur_cq
       ELSE \* io_uring_cqe_seen
            /\ ur_cq' = Tail(ur_cq)
            /\ ur_pc' = "peek"
            /\ UNCHANGED ur_cell_i
    /\ UNCHANGED <<not_ur_vars, ur_queue_size, ur_kernel>>

\* The test of the copy loop, io_uring_submit_and_wait, and the end of
\* main().
ur_main ==
    /\ \/ /\ ur_pc = "while"
          /\ ur_pc' = IF \/ ur_status.src_off # ur_status.src_size
                         \/ ur_status.num_block_in_progress # 0
                      THEN "submit" ELSE "exit_success"
          /\ UNCHANGED <<ur_sq, ur_kernel, ur_cq>>
       \/ \* all prepared requests go to the kernel
          /\ ur_pc = "submit"
          /\ ur_kernel' = ur_kernel \cup ur_sq
          /\ ur_sq' = {}
          /\ ur_pc' = "wait"
          /\ UNCHANGED ur_cq
       \/ \* and the call returns when a completion is there
          /\ ur_pc = "wait"
          /\ ur_cq # <<>>
          /\ ur_pc' = "peek"
          /\ UNCHANGED <<ur_sq, ur_kernel, ur_cq>>
       \/ \* io_uring_peek_cqe and the dispatch on the stage of the cell
          /\ ur_pc = "peek"
          /\ IF ur_cq = <<>>
             THEN ur_pc' = "while"
             ELSE LET stage == ur_status.block_statuses[Head(ur_cq).user_data]
                                   .stage
                  IN  ur_pc' =
                        IF stage = "BLOCK_IN_READ"
                        THEN IF Head(ur_cq).res < 0 THEN "exit_failure"
                             ELSE "prepare_write"
                        ELSE IF stage = "BLOCK_IN_WRITE"
                        THEN IF Head(ur_cq).res < 0 THEN "exit_failure"
                             ELSE "finish_write"
                        ELSE "seen"
          /\ UNCHANGED <<ur_sq, ur_kernel, ur_cq>>
       \/ \* io_uring_cqe_seen for a completion of a cell that is idle
          /\ ur_pc = "seen"
          /\ ur_cq' = Tail(ur_cq)
          /\ ur_pc' = "peek"
          /\ UNCHANGED <<ur_sq, ur_kernel>>
    /\ UNCHANGED <<not_ur_vars, ur_queue_size, ur_cell_i, ur_status, ur_done>>

\* prepare_write_request for the cell of the completion, and
\* io_uring_cqe_seen.
ur_prepare_write_request ==
    /\ ur_pc = "prepare_write"
    /\ LET cell == Head(ur_cq).user_data
       IN  /\ ur_status' = [ur_status EXCEPT
                !.block_statuses[cell].stage = "BLOCK_IN_WRITE"]
           /\ ur_sq' = ur_sq \cup
                {[user_data |-> cell, op |-> "write",
                  offset |-> ur_status.block_statuses[cell].offset]}
    /\ ur_cq' = Tail(ur_cq)
    /\ ur_pc' = "peek"
    /\ UNCHANGED <<not_ur_vars, ur_queue_size, ur_cell_i, ur_kernel, ur_done>>

\* finish_write_request for the cell of the completion.
ur_finish_write_request ==
    /\ ur_pc = "finish_write"
    /\ ur_status' = [ur_status EXCEPT
         !.block_statuses[Head(ur_cq).user_data].stage = "BLOCK_IDLE",
         !.num_block_in_progress = (@ + 65535) % 65536]
    /\ ur_pc' = "prepare_read"
    /\ UNCHANGED <<not_ur_vars, ur_queue_size, ur_cell_i, ur_sq, ur_kernel,
                   ur_cq, ur_done>>

\* The kernel completes one of the submitted requests, with success or
\* with an error.
ur_kernel_completes ==
    /\ \E req \in ur_kernel :
         /\ ur_kernel' = ur_kernel \ {req}
         /\ \E res \in {-5, READ_BLOCK_SIZE} :
              /\ ur_cq' = Append(ur_cq, [user_data |-> req.user_data,
                                         res |-> res])
              /\ ur_done' =
                   IF res < 0 THEN ur_done
                   ELSE IF req.op = "read"
                   THEN [ur_done EXCEPT !.read = Append(@, req.offset)]
                   ELSE [ur_done EXCEPT !.written = Append(@, req.offset)]
    /\ UNCHANGED <<not_ur_vars, ur_pc, ur_queue_size, ur_cell_i, ur_status,
                   ur_sq>>

UrNext ==
    \/ ur_open_dst_file
    \/ ur_prepare_read_request
    \/ ur_main
    \/ ur_prepare_write_request
    \/ ur_finish_write_request
    \/ ur_kernel_completes

SpecUring == UrInit /\ [][UrNext]_vars

\* The ranges lie one after the other from the given offset on, each of 1
\* to READ_BLOCK_SIZE bytes.
RECURSIVE Tiles(_, _)
Tiles(ranges, from) ==
    \/ ranges = <<>>
    \/ /\ Head(ranges).offset = from
       /\ Head(ranges).size \in 1 .. READ_BLOCK_SIZE
       /\ Tiles(Tail(ranges), from + Head(ranges).size)

\* The end of the last of the ranges.
RangesEnd(ranges) ==
    IF ranges = <<>> THEN 0
    ELSE ranges[Len(ranges)].offset + ranges[Len(ranges)].size

Elements(seq) == {seq[k] : k \in 1 .. Len(seq)}

\* The requests of a cell that are prepared, submitted, or completed and
\* not yet handled by main().
UrInFlight(cell) ==
    LET unhandled == IF ur_pc = "prepare_read" THEN Tail(ur_cq) ELSE ur_cq
    IN  Cardinality({req \in ur_sq \cup ur_kernel : req.user_data = cell})
          + Cardinality({k \in 1 .. Len(unhandled) :
                             unhandled[k].user_data = cell})

UrCopyState ==
    ur_pc # "off" =>
        /\ Tiles(ur_done.assigned, 0)
        /\ RangesEnd(ur_done.assigned) = ur_status.src_off
        /\ ur_status.src_off <= ur_status.src_size
        /\ Cardinality(Elements(ur_done.read)) = Len(ur_done.read)
        /\ Cardinality(Elements(ur_done.written)) = Len(ur_done.written)
        /\ Elements(ur_done.written) \subseteq Elements(ur_done.read)
        /\ Elements(ur_done.read) \subseteq
               {range.offset : range \in Elements(ur_done.assigned)}
        /\ \A cell \in UrCells :
             UrInFlight(cell) =
                 IF ur_status.block_statuses[cell].stage = "BLOCK_IDLE"
                 THEN 0 ELSE 1
        /\ ur_status.num_block_in_progress =
               Cardinality({cell \in UrCells :
                   ur_status.block_statuses[cell].stage # "BLOCK_IDLE"})
        /\ ur_pc \in {"submit", "wait"} =>
               \/ ur_status.src_off # ur_status.src_size
               \/ ur_status.num_block_in_progress # 0
        /\ ur_pc = "exit_success" =>
               /\ ur_status.src_off = ur_status.src_size
               /\ ur_status.num_block_in_progress = 0
               /\ Elements(ur_done.written) =
                      {range.offset : range \in Elements(ur_done.assigned)}

UrStageCycle ==
    ur_pc # "off" =>
        \A cell \in UrCells :
            LET old == ur_status.block_statuses[cell].stage
                new == ur_status'.block_statuses[cell].stage
            IN  old # new =>
                  <<old, new>> \in {<<"BLOCK_IDLE", "BLOCK_IN_READ">>,
                                    <<"BLOCK_IN_READ", "BLOCK_IN_WRITE">>,
                                    <<"BLOCK_IN_WRITE", "BLOCK_IDLE">>}

\* C39: the ranges handed out by prepare_read_request lie one after the
\* other from 0 to src_off, which never passes src_size; each is read at
\* most once and written at most once, after its read; a cell that is not
\* idle has exactly one request in flight and an idle cell none;
\* num_block_in_progress is the number of cells that are not idle; the body
\* of the copy loop runs only while src_off # src_size or a block is in
\* progress, and when main() ends src_off = src_size, no block is in
\* progress and every range has been written; and the stage of a cell only
\* goes from BLOCK_IDLE to BLOCK_IN_READ to BLOCK_IN_WRITE to BLOCK_IDLE.
C39_EachRangeCopiedOnce == []UrCopyState /\ [][UrStageCycle]_vars

\* A file of 13000 bytes has been copied with two cells: four ranges, the
\* last of 712 bytes, and the writes completed in another order than the
\* ranges were handed out.
C39_Witness ==
    /\ ur_pc = "exit_success"
    /\ ur_queue_size = 2
    /\ Len(ur_done.assigned) = 4
    /\ ur_done.assigned[4].size = 712
    /\ ur_done.written[1] # 0

\* ---------------------------------------------------------------------
\* linux-aio-cp and posix-aio-cp, with common.h
\* ---------------------------------------------------------------------

\* <<QUEUE_SIZE, length of the source file>>
AioConfigs ==
    {<<2, 0>>, <<2, 1>>, <<2, 4096>>, <<2, 5000>>, <<2, 8192>>, <<2, 13000>>,
     <<3, 9000>>}

AioSlots == 0 .. aio_queue_size - 1

\* src_size + READ_BLOCK_SIZE - (src_size % READ_BLOCK_SIZE)
Rounded(src_size) ==
    src_size + READ_BLOCK_SIZE - (src_size % READ_BLOCK_SIZE)

\* The control block of a read of READ_BLOCK_SIZE bytes at src_off:
\* io_read_setup leaves it in the submit list, aio_read_setup hands it to
\* the system at once.
ReadSetup ==
    [op |-> "read", offset |-> aio_src_off, nbytes |-> READ_BLOCK_SIZE,
     state |-> IF aio_variant = "linux-aio-cp" THEN "to_submit"
               ELSE "in_progress",
     res |-> 0]

\* The control block of the write of the bytes that the read of this
\* control block has returned, at the same offset.
WriteSetup(cb) ==
    [op |-> "write", offset |-> cb.offset, nbytes |-> cb.res,
     state |-> IF aio_variant = "linux-aio-cp" THEN "to_submit"
               ELSE "in_progress",
     res |-> 0]

\* main() up to the opening of the source file.
AioInit ==
    /\ aio_variant \in {"linux-aio-cp", "posix-aio-cp"}
    /\ aio_pc = "open_dst_file"
    /\ \E c \in AioConfigs :
         /\ aio_queue_size = c[1]
         /\ aio_file_size = c[2]
         /\ aio_src_size = c[2]
    /\ aio_dst_size = 0
    /\ aio_src_off = 0
    /\ aio_num_io_reqs = 0
    /\ aio_i = 0
    /\ aio_cbs = [slot \in AioSlots |->
                    [op |-> "none", offset |-> 0, nbytes |-> 0,
                     state |-> "unused", res |-> 0]]
    /\ aio_events = <<>>
    /\ NetOff
    /\ FxOff
    /\ TkOff
    /\ RbOff
    /\ SqOff
    /\ UrOff

\* open_dst_file: the file is created empty and fallocate gives it the
\* length src_size; fallocate fails for a length of 0 (EINVAL) and the
\* program exits.
aio_open_dst_file ==
    /\ aio_pc = "open_dst_file"
    /\ IF aio_src_size = 0
       THEN aio_pc' = "exit_failure" /\ UNCHANGED aio_dst_size
       ELSE aio_pc' = "round" /\ aio_dst_size' = aio_src_size
    /\ UNCHANGED <<not_aio_vars, aio_variant, aio_queue_size, aio_file_size,
                   aio_src_size, aio_src_off, aio_num_io_reqs, aio_i,
                   aio_cbs, aio_events>>

\* The part of main() that is the same in the two programs: the rounding
\* of src_size, the first reads and the test of the while loop.
AioMainCommon ==
    \/ /\ aio_pc = "round"
       /\ aio_src_size' = Rounded(aio_src_size)
       /\ aio_pc' = "first_reads"
       /\ UNCHANGED <<aio_src_off, aio_num_io_reqs, aio_i, aio_cbs,
                      aio_events>>
    \/ /\ aio_pc = "first_reads"
       /\ IF aio_i < aio_queue_size /\ aio_src_off < aio_src_size
          THEN /\ aio_cbs' = [aio_cbs EXCEPT ![aio_i] = ReadSetup]
               /\ aio_src_off' = aio_src_off + READ_BLOCK_SIZE
               /\ aio_i' = aio_i + 1
               /\ aio_num_io_reqs' = aio_num_io_reqs + 1
               /\ UNCHANGED aio_pc
          ELSE /\ aio_pc' = "while"
               /\ UNCHANGED <<aio_src_off, aio_num_io_reqs, aio_i, aio_cbs>>
       /\ UNCHANGED <<aio_src_size, aio_events>>
    \/ /\ aio_pc = "while"
       /\ aio_pc' = IF aio_num_io_reqs # 0 THEN "wait" ELSE "close"
       /\ aio_i' = 0
       /\ UNCHANGED <<aio_src_size, aio_src_off, aio_num_io_reqs, aio_cbs,
                      aio_events>>

\* The handling of the completed control block of a slot, the same in the
\* two programs but for the bookkeeping of the lists.
AioHandle(slot) ==
    LET cb == aio_cbs[slot]
    IN  IF cb.op = "read"
        THEN IF cb.res # 0
             THEN /\ aio_cbs' = [aio_cbs EXCEPT ![slot] = WriteSetup(cb)]
                  /\ UNCHANGED <<aio_pc, aio_src_off, aio_num_io_reqs>>
             ELSE \* "ERROR: reach unavailible state"
                  /\ aio_pc' = "unavailable_state"
                  /\ UNCHANGED <<aio_cbs, aio_src_off, aio_num_io_reqs>>
        ELSE IF cb.res # 0 /\ aio_src_off < aio_src_size
             THEN /\ aio_cbs' = [aio_cbs EXCEPT ![slot] = ReadSetup]
                  /\ aio_src_off' = aio_src_off + READ_BLOCK_SIZE
                  /\ UNCHANGED <<aio_pc, aio_num_io_reqs>>
             ELSE /\ aio_cbs' = [aio_cbs EXCEPT ![slot].state = "unused"]
                  /\ aio_num_io_reqs' = aio_num_io_reqs - 1
                  /\ UNCHANGED <<aio_pc, aio_src_off>>

\* One step of main() of linux-aio-cp.
aio_linux_main ==
    /\ aio_variant = "linux-aio-cp"
    /\ \/ AioMainCommon
       \/ \* io_submit and io_getevents, which waits for one completion at
          \* least and returns all there are
          /\ aio_pc = "wait"
          /\ LET submitted ==
                   [slot \in AioSlots |->
                      IF aio_cbs[slot].state = "to_submit"
                      THEN [aio_cbs[slot] EXCEPT !.state = "in_progress"]
                      ELSE aio_cbs[slot]]
                 done == {slot \in AioSlots : aio_cbs[slot].state = "done"}
             IN  IF \E slot \in AioSlots : aio_cbs[slot].state = "to_submit"
                 THEN /\ aio_cbs' = submitted
                      /\ UNCHANGED <<aio_pc, aio_events>>
                 ELSE /\ done # {}
                      /\ \E returned \in [1 .. Cardinality(done) -> done] :
                           /\ \A j, k \in DOMAIN returned :
                                j # k => returned[j] # returned[k]
                           /\ aio_events' = returned
                      /\ aio_pc' = "events"
                      /\ UNCHANGED aio_cbs
          /\ UNCHANGED <<aio_src_size, aio_src_off, aio_num_io_reqs, aio_i>>
       \/ \* the for loop over the events
          /\ aio_pc = "events"
          /\ IF aio_events = <<>>
             THEN /\ aio_pc' = "while"
                  /\ UNCHANGED <<aio_cbs, aio_src_off, aio_num_io_reqs,
                                 aio_events>>
             ELSE /\ AioHandle(Head(aio_events))
                  /\ aio_events' = Tail(aio_events)
          /\ UNCHANGED <<aio_src_size, aio_i>>
    /\ UNCHANGED <<not_aio_vars, aio_variant, aio_queue_size, aio_file_size,
                   aio_dst_size>>

\* One step of main() of posix-aio-cp.
aio_posix_main ==
    /\ aio_variant = "posix-aio-cp"
    /\ \/ AioMainCommon
       \/ \* aio_suspend returns when a request of the wait list is complete
          /\ aio_pc = "wait"
          /\ \E slot \in AioSlots : aio_cbs[slot].state = "done"
          /\ aio_pc' = "events"
          /\ aio_i' = 0
          /\ UNCHANGED <<aio_src_size, aio_src_off, aio_num_io_reqs, aio_cbs>>
       \/ \* the for loop over the control blocks
          /\ aio_pc = "events"
          /\ IF aio_i = aio_queue_size
             THEN /\ aio_pc' = "while"
                  /\ UNCHANGED <<aio_cbs, aio_src_off, aio_num_io_reqs, aio_i>>
             ELSE /\ aio_i' = aio_i + 1
                  /\ IF aio_cbs[aio_i].state = "done"
                     THEN AioHandle(aio_i)
                     ELSE UNCHANGED <<aio_pc, aio_cbs, aio_src_off,
                                      aio_num_io_reqs>>
          /\ UNCHANGED aio_src_size
    /\ UNCHANGED <<not_aio_vars, aio_variant, aio_queue_size, aio_file_size,
                   aio_dst_size, aio_events>>

\* The system completes a request: a read returns the bytes the file has
\* from the offset on, up to nbytes; a write returns nbytes and the file
\* reaches at least to the end of the bytes written.
aio_completes ==
    /\ \E slot \in AioSlots :
         LET cb == aio_cbs[slot]
             available == IF aio_file_size > cb.offset
                          THEN aio_file_size - cb.offset ELSE 0
         IN  /\ cb.state = "in_progress"
             /\ IF cb.op = "read"
                THEN /\ aio_cbs' = [aio_cbs EXCEPT
                          ![slot].state = "done",
                          ![slot].res = Min(cb.nbytes, available)]
                     /\ UNCHANGED aio_dst_size
                ELSE /\ aio_cbs' = [aio_cbs EXCEPT ![slot].state = "done",
                                                   ![slot].res = cb.nbytes]
                     /\ aio_dst_size' =
                          IF cb.offset + cb.nbytes > aio_dst_size
                          THEN cb.offset + cb.nbytes ELSE aio_dst_size
    /\ UNCHANGED <<not_aio_vars, aio_variant, aio_pc, aio_queue_size,
                   aio_file_size, aio_src_size, aio_src_off, aio_num_io_reqs,
                   aio_i, aio_events>>

\* close_src_dst_files(argv[1], src_fd, src_size, argv[2], dst_fd):
\* ftruncate(dst_fd, src_size).
aio_close_src_dst_files ==
    /\ aio_pc = "close"
    /\ aio_dst_size' = aio_src_size
    /\ aio_pc' = "exit_success"
    /\ UNCHANGED <<not_aio_vars, aio_variant, aio_queue_size, aio_file_size,
                   aio_src_size, aio_src_off, aio_num_io_reqs, aio_i,
                   aio_cbs, aio_events>>

AioNext ==
    \/ aio_open_dst_file
    \/ aio_linux_main
    \/ aio_posix_main
    \/ aio_completes
    \/ aio_close_src_dst_files

SpecAio == AioInit /\ [][AioNext]_vars

\* C40 as stated: once main() has rounded it, src_size is the smallest
\* multiple of READ_BLOCK_SIZE that is not below the length of the source
\* file; the exit "ERROR: reach unavailible state" is never taken; and when
\* main() returns the destination file has the length of the source file.
C40_Original ==
    aio_variant # "off" =>
        /\ aio_pc \notin {"open_dst_file", "round", "exit_failure"} =>
             /\ aio_src_size % READ_BLOCK_SIZE = 0
             /\ aio_src_size >= aio_file_size
             /\ aio_src_size - READ_BLOCK_SIZE < aio_file_size
        /\ aio_pc # "unavailable_state"
        /\ aio_pc = "exit_success" => aio_dst_size = aio_file_size

====
